---- MODULE Spec2Model ----
(***************************************************************************)
(* Model of the backup run orchestrator of gorestic-homelab                *)
(* (internal/services/runner/service.go, Impl.Run and its helpers).        *)
(*                                                                         *)
(* One run is modelled: Init draws the configuration and the environment,  *)
(* RunStart enters Run, and every adapter invocation is split into the     *)
(* code that leads to the call (XxxCall) and the code that handles what    *)
(* the adapter returned (XxxHandle).  The deferred closures of Run are     *)
(* kept on a stack and run last-registered-first once Run executes a       *)
(* return statement.                                                       *)
(*                                                                         *)
(* Spec takes the adapters through their interfaces (XxxReturn hands back  *)
(* any value of the interface's shape).  SpecAdapters puts the adapters in *)
(* place: Wake as the thread it is (packet, polling loop, selects, clock   *)
(* and cancellation), the others as the pair they return for what their    *)
(* environment does.                                                       *)
(***************************************************************************)
EXTENDS Integers, Sequences, FiniteSets, TLC

VARIABLES
    cfg,            \* models.BackupConfig handed to Run
    keyReadable,    \* environment: os.ReadFile(cfg.SSHShutdown.KeyPath) succeeds
    pc,             \* position of the orchestrating thread inside Run
    inflight,       \* adapter call in progress ("none" when no call is open)
    failedStep,     \* local failedStep of Run
    wolAttempted,   \* local wolAttempted of Run
    wolSucceeded,   \* local wolSucceeded of Run
    backupStats,    \* local backupStats of Run (NoStats = nil pointer)
    forgetStats,    \* local forgetStats of Run (NoStats = nil pointer)
    returnErr,      \* named result returnErr of Run (Nil = nil error)
    pgDumpPath,     \* local pgDumpPath of Run
    deferred,       \* stack of deferred closures, last registered at the end
    dumpFile,       \* the dump file exists on disk
    backupArgs,     \* BackupSettings handed to the Backup adapter
    ret,            \* what each adapter returned in this run
    msg,            \* TelegramMessage handed to SendNotification
    trace,          \* history of adapter calls/returns and file removals
    returned,       \* Run has returned to its caller
    cancelled,      \* the context handed to Run is done (ctx.Done() closed)
    now,            \* time.Now() in ticks since Wake was entered
    wpc,            \* position of the thread inside wol.Impl.Wake
    wDeadline,      \* local deadline of waitForTarget
    wTimer,         \* expiry of the timer of the select Wake is blocked in
    wPolls,         \* number of requests handed to httpClient.Do
    wLog,           \* what httpClient.Do has handed back, call by call
    wResult,        \* the *models.WOLResult Wake is filling
    wOut,           \* the pair (result, error) Wake has returned
    wCancelAt,      \* position of Wake when the context was cancelled
    wPollsAtCancel, \* wPolls when the context was cancelled
    spc,            \* position of the thread inside ssh.Impl.Shutdown
    sDial,          \* the goroutine that calls clientFactory.NewClient
    sClient,        \* the SSH client that goroutine has created, if any
    sOut,           \* the pair (result, error) Shutdown has returned
    sCancelAt,      \* position of Shutdown when the context was cancelled
    sWaited,        \* Shutdown went on upon an answer that came after that
    sCtxAtDial,     \* the context was done when NewClient returned
    repo,           \* the restic repository: "absent" or "initialized"
    initLog,        \* what each call of restic.Impl.Init did and returned
    dumpCmd,        \* how the pg_dump command of postgres.Impl.Dump ended
    checkCmd,       \* how the `restic check` of restic.Impl.Check ended
    cfg0,           \* the BackupConfig as the caller held it on calling Run
    sigPending,     \* a signal sits in sigChan, not yet received
    runAtCancel     \* what Run was doing when the context was cancelled

runVars == <<cfg, keyReadable, pc, inflight, failedStep, wolAttempted,
             wolSucceeded, backupStats, forgetStats, returnErr, pgDumpPath,
             deferred, dumpFile, backupArgs, ret, msg, trace, returned>>

\* State of the context, of the clock and of the Wake adapter.
\* State of the Shutdown adapter.
sshVars == <<spc, sDial, sClient, sOut, sCancelAt, sWaited, sCtxAtDial>>

\* The repository and the calls of Init on it.
repoVars == <<repo, initLog>>

\* How the commands run by Dump and by Check ended.
execVars == <<dumpCmd, checkCmd>>

adapterVars == <<cancelled, now, wpc, wDeadline, wTimer, wPolls, wLog,
                 wResult, wOut, wCancelAt, wPollsAtCancel, sshVars,
                 repoVars, execVars>>

\* The caller of Run (runBackup): its view of the configuration and its
\* signal listener.
callerVars == <<cfg0, sigPending, runAtCancel>>

vars == <<runVars, adapterVars, callerVars>>

----------------------------------------------------------------------------
(* Errors are chains of message fragments, outermost wrapper first;         *)
(* fmt.Errorf("p: %w", e) puts p in front of e; the text of an error is   *)
(* its chain read left to right.                                           *)

Nil == <<>>

Wrap(prefix, e) == <<prefix>> \o e

\* Underlying errors produced by the adapters, one per adapter and shape.
TransportErr(a) == <<a, "transport error">>

ResultErr(a) == <<a, "result error">>

----------------------------------------------------------------------------
(* Values                                                                   *)

Adapters == {"Wake", "Init", "Dump", "Backup", "Forget", "Check",
             "Shutdown", "Notify"}

NoStats == [present |-> FALSE]

NoRet == [kind |-> "none"]

NoMsg == [sent |-> FALSE]

NoArgs == [called |-> FALSE]

\* models.WOLResult{}: the zero value Wake starts from.
NoResult == [PacketSent |-> FALSE, TargetReady |-> FALSE, Error |-> Nil]

\* A nil result pointer.
NilResult == [nil |-> TRUE]

\* No pair has been returned yet.
NoOut == [result |-> NilResult, err |-> Nil, returned |-> FALSE]

\* Configured values used by the runs (runner/service_test.go fixtures).
ConfiguredPaths == <<"/data">>

ConfiguredTags == <<"homelab">>

ConfiguredHost == "testhost"

ConfiguredRepository == "/backup"

\* filepath.Join(s.tempDir, postgres.GetOutputFilename(cfg))
DumpOutputPath == "/tmp/db.dump"

\* Sample payloads a Backup result can carry (zero values and the values of
\* the test fixtures).
BackupData ==
    { [SnapshotID |-> "", FilesNew |-> 0, FilesChanged |-> 0,
       FilesUnmodified |-> 0, DataAdded |-> 0,
       TotalFilesProcessed |-> 0, TotalBytesProcessed |-> 0],
      [SnapshotID |-> "abc123", FilesNew |-> 10, FilesChanged |-> 5,
       FilesUnmodified |-> 100, DataAdded |-> 1048576,
       TotalFilesProcessed |-> 115, TotalBytesProcessed |-> 10485760] }

ZeroBackupData ==
    [SnapshotID |-> "", FilesNew |-> 0, FilesChanged |-> 0,
     FilesUnmodified |-> 0, DataAdded |-> 0,
     TotalFilesProcessed |-> 0, TotalBytesProcessed |-> 0]

ForgetData ==
    { [SnapshotsKept |-> 0, SnapshotsRemoved |-> 0],
      [SnapshotsKept |-> 5, SnapshotsRemoved |-> 2] }

ZeroForgetData == [SnapshotsKept |-> 0, SnapshotsRemoved |-> 0]

\* models.BackupConfig: the four optional sub-configurations are pointers
\* (present or nil); Check.Enabled is a flag.
\* The durations are in ticks of the clock.
NoWOL ==
    [present |-> FALSE, MACValid |-> TRUE, PollURL |-> "", Timeout |-> 0,
     PollInterval |-> 0, StabilizeWait |-> 0]

PollURLs == {"", "http://target/health"}

WOLConfigs ==
    {NoWOL}
    \cup [present : {TRUE}, MACValid : {TRUE}, PollURL : PollURLs,
          Timeout : {2}, PollInterval : {1}, StabilizeWait : {1}]

SSHConfigs ==
    { [present |-> FALSE, PrivateKey |-> "nil", KeyPath |-> ""] }
    \cup [present : {TRUE}, PrivateKey : {"nil", "key"},
          KeyPath : {"", "/id_rsa"}]

Configs ==
    [WOL : WOLConfigs, Postgres : BOOLEAN, SSHShutdown : SSHConfigs,
     Telegram : BOOLEAN, CheckEnabled : BOOLEAN]

----------------------------------------------------------------------------
(* What the adapters can return through their interfaces: a transport      *)
(* error, or a result whose Error field is set or not.                     *)

WakeReturns ==
    { [kind |-> "terr", Error |-> TransportErr("Wake")] }
    \cup [kind : {"rerr"}, TargetReady : BOOLEAN, Error : {ResultErr("Wake")}]
    \cup [kind : {"ok"}, TargetReady : BOOLEAN, Error : {Nil}]

InitReturns ==
    { [kind |-> "terr", Error |-> TransportErr("Init")], [kind |-> "ok"] }

DumpReturns ==
    { [kind |-> "terr", Error |-> TransportErr("Dump")],
      [kind |-> "rerr", OutputPath |-> DumpOutputPath,
       Error |-> ResultErr("Dump")],
      [kind |-> "ok", OutputPath |-> DumpOutputPath, Error |-> Nil] }

BackupReturns ==
    { [kind |-> "terr", Error |-> TransportErr("Backup")] }
    \cup [kind : {"rerr"}, data : BackupData, Error : {ResultErr("Backup")}]
    \cup [kind : {"ok"}, data : BackupData, Error : {Nil}]

ForgetReturns ==
    { [kind |-> "terr", Error |-> TransportErr("Forget")] }
    \cup [kind : {"rerr"}, data : ForgetData, Error : {ResultErr("Forget")}]
    \cup [kind : {"ok"}, data : ForgetData, Error : {Nil}]

CheckReturns ==
    { [kind |-> "terr", Error |-> TransportErr("Check")] }
    \cup [kind : {"rerr"}, Passed : BOOLEAN, Error : {ResultErr("Check")}]
    \cup [kind : {"ok"}, Passed : BOOLEAN, Error : {Nil}]

ShutdownReturns ==
    { [kind |-> "terr", Error |-> TransportErr("Shutdown")] }
    \cup [kind : {"rerr"}, CommandRun : BOOLEAN,
          Error : {ResultErr("Shutdown")}]
    \cup [kind : {"ok"}, CommandRun : BOOLEAN, Error : {Nil}]

NotifyReturns ==
    { [kind |-> "terr", Error |-> TransportErr("Notify")],
      [kind |-> "rerr", Error |-> ResultErr("Notify")],
      [kind |-> "ok", Error |-> Nil] }

----------------------------------------------------------------------------
(* Bookkeeping shared by the actions                                        *)

CallEv(a) == <<a, "call">>

RetEv(a) == <<a, "ret">>

RemoveEv == <<"os.Remove", "dump">>

\* The orchestrating thread invokes adapter a.
Invoke(a) ==
    /\ inflight' = a
    /\ trace' = Append(trace, CallEv(a))

\* Adapter a hands r back to the orchestrating thread.
Receive(a, r) ==
    /\ inflight = a
    /\ inflight' = "none"
    /\ ret' = [ret EXCEPT ![a] = r]
    /\ trace' = Append(trace, RetEv(a))

Init ==
    /\ cfg \in Configs
    /\ keyReadable \in BOOLEAN
    /\ pc = "idle"
    /\ inflight = "none"
    /\ failedStep = ""
    /\ wolAttempted = FALSE
    /\ wolSucceeded = FALSE
    /\ backupStats = NoStats
    /\ forgetStats = NoStats
    /\ returnErr = Nil
    /\ pgDumpPath = ""
    /\ deferred = <<>>
    /\ dumpFile = FALSE
    /\ backupArgs = NoArgs
    /\ ret = [a \in Adapters |-> NoRet]
    /\ msg = NoMsg
    /\ trace = <<>>
    /\ returned = FALSE
    /\ cancelled = FALSE
    /\ now = 0
    /\ wpc = "idle"
    /\ wDeadline = 0
    /\ wTimer = 0
    /\ wPolls = 0
    /\ wLog = <<>>
    /\ wResult = NoResult
    /\ wOut = NoOut
    /\ wCancelAt = ""
    /\ wPollsAtCancel = 0
    /\ spc = "idle"
    /\ sDial = "none"
    /\ sClient = "none"
    /\ sOut = NoOut
    /\ sCancelAt = ""
    /\ sWaited = FALSE
    /\ sCtxAtDial = FALSE
    /\ repo = "absent"
    /\ initLog = <<>>
    /\ dumpCmd = "not run"
    /\ checkCmd = "not run"
    /\ cfg0 = cfg
    /\ sigPending = FALSE
    /\ runAtCancel = ""


----------------------------------------------------------------------------
(* Helpers of Run                                                           *)

\* A return statement of Run: the operand is assigned to the named result
\* returnErr, then the deferred closures run.
ReturnFromRun(e) ==
    /\ returnErr' = e
    /\ pc' = "exit"

Pop(s) == SubSeq(s, 1, Len(s) - 1)

Top(s) == s[Len(s)]

\* Variant: the two exit closures registered in the opposite order.
ExitClosuresSwapped == <<"shutdown", "notify">>

\* Registration of the two exit closures: notification first, shutdown
\* second, so that shutdown runs before the notification.
ExitClosures == <<"notify", "shutdown">>

\* Variant: the check statement placed before the forget statement.
StepOrderCheckFirst ==
    <<"wol", "init", "postgres", "backup", "check", "forget">>

\* The forward steps in the order of the statements of Run.
StepOrder == <<"wol", "init", "postgres", "backup", "forget", "check">>

\* Variant: every step runs whatever the configuration holds.
StepEnabledAlways(step) == TRUE

\* The conditions under which Run executes a step.
StepEnabled(step) ==
    CASE step = "wol" -> cfg.WOL.present
      [] step = "postgres" -> cfg.Postgres
      [] step = "check" -> cfg.CheckEnabled
      [] OTHER -> TRUE

\* The first step Run executes after position i of the order; "success"
\* when control reaches the end of the forward steps.
NextStepFrom(i) ==
    LET later == {j \in (i + 1)..Len(StepOrder) : StepEnabled(StepOrder[j])}
    IN IF later = {} THEN "success"
       ELSE StepOrder[CHOOSE j \in later : \A k \in later : j <= k]

PosOf(step) == CHOOSE i \in 1..Len(StepOrder) : StepOrder[i] = step

FirstStep == NextStepFrom(0)

StepAfter(step) == NextStepFrom(PosOf(step))

\* Variant: runWOL does not look at TargetReady.
RunWOLErrIgnoreReady(r) ==
    IF r.kind = "terr" THEN Wrap("WOL failed", r.Error)
    ELSE IF r.kind = "rerr" THEN Wrap("WOL failed", r.Error)
    ELSE Nil

\* runWOL: error returned for what Wake handed back (Nil = success).
RunWOLErr(r) ==
    IF r.kind = "terr" THEN Wrap("WOL failed", r.Error)
    ELSE IF r.kind = "rerr" THEN Wrap("WOL failed", r.Error)
    ELSE IF ~r.TargetReady /\ cfg.WOL.PollURL # ""
         THEN <<"target did not become ready after WOL">>
    ELSE Nil

\* runPostgresDump: error returned for what Dump handed back.
RunPostgresDumpErr(r) ==
    IF r.kind = "terr"
    THEN Wrap("PostgreSQL dump failed", r.Error)
    ELSE IF r.kind = "rerr"
    THEN Wrap("PostgreSQL dump failed", r.Error)
    ELSE Nil

\* Variant: only the transport error of Backup is inspected.
BackupErrTransportOnly(r) ==
    IF r.kind = "terr" THEN Wrap("backup failed", r.Error)
    ELSE Nil

\* Error Run returns for what Backup handed back.
BackupErr(r) ==
    IF r.kind = "terr" THEN Wrap("backup failed", r.Error)
    ELSE IF r.kind = "rerr" THEN Wrap("backup failed", r.Error)
    ELSE Nil

\* Variant: only the transport error of Forget is inspected.
ForgetErrTransportOnly(r) ==
    IF r.kind = "terr" THEN Wrap("forget failed", r.Error)
    ELSE Nil

\* Error Run returns for what Forget handed back.
ForgetErr(r) ==
    IF r.kind = "terr" THEN Wrap("forget failed", r.Error)
    ELSE IF r.kind = "rerr" THEN Wrap("forget failed", r.Error)
    ELSE Nil

\* Variant: the Passed flag of the check result is not inspected.
CheckErrIgnorePassed(r) ==
    IF r.kind = "terr" THEN Wrap("check failed", r.Error)
    ELSE IF r.kind = "rerr" THEN Wrap("check failed", r.Error)
    ELSE Nil

\* Error Run returns for what Check handed back.
CheckErr(r) ==
    IF r.kind = "terr" THEN Wrap("check failed", r.Error)
    ELSE IF r.kind = "rerr" THEN Wrap("check failed", r.Error)
    ELSE IF ~r.Passed THEN <<"repository check failed">>
    ELSE Nil

\* Variant: an error on the result fails the step whether or not the
\* command was run.
RunSSHShutdownErrAnyError(r) ==
    IF r.kind \in {"terr", "rerr"}
    THEN Wrap("SSH shutdown failed", r.Error)
    ELSE Nil

\* runSSHShutdown, after the key is available: error for what Shutdown
\* handed back.  A result error with CommandRun set is only a warning.
RunSSHShutdownErr(r) ==
    IF r.kind = "terr"
    THEN Wrap("SSH shutdown failed", r.Error)
    ELSE IF r.kind = "rerr" /\ ~r.CommandRun
    THEN Wrap("SSH shutdown failed", r.Error)
    ELSE Nil

\* runSSHShutdown reads the key file when no key is held in the config.
NeedsKeyLoad == cfg.SSHShutdown.PrivateKey = "nil" /\ cfg.SSHShutdown.KeyPath # ""

KeyReadErr == <<"failed to read SSH key", "os.ReadFile error">>

\* Variant: shutdown runs whenever it is configured, whatever Wake did.
ShouldShutdownNoGate == cfg.SSHShutdown.present

\* Variant: the shutdown closure does nothing once the context is done.
ShouldShutdownUnlessCancelled ==
    /\ ~cancelled
    /\ cfg.SSHShutdown.present
    /\ ~wolAttempted \/ wolSucceeded

\* The wake-gate of the shutdown closure.
ShouldShutdown ==
    cfg.SSHShutdown.present /\ (~wolAttempted \/ wolSucceeded)

\* Variant: the dump file is not added to the paths.
BackupPathsNoDump == ConfiguredPaths

\* Paths handed to Backup.
BackupPaths ==
    IF pgDumpPath # "" THEN Append(ConfiguredPaths, pgDumpPath)
    ELSE ConfiguredPaths

\* sendNotificationWithStats: the message built from the values the closure
\* sees when it runs.
BuildMessage(fs, runErr, bs, fgs) ==
    LET b == IF bs.present THEN bs.data ELSE ZeroBackupData
        f == IF fgs.present THEN fgs.data ELSE ZeroForgetData
    IN [sent |-> TRUE,
        Success |-> (runErr = Nil),
        Host |-> ConfiguredHost,
        Repository |-> ConfiguredRepository,
        FailedStep |-> IF runErr # Nil THEN fs ELSE "",
        ErrorMessage |-> IF runErr # Nil THEN runErr ELSE Nil,
        SnapshotID |-> b.SnapshotID,
        FilesNew |-> b.FilesNew,
        FilesChanged |-> b.FilesChanged,
        FilesUnmodified |-> b.FilesUnmodified,
        DataAdded |-> b.DataAdded,
        TotalFiles |-> b.TotalFilesProcessed,
        TotalBytes |-> b.TotalBytesProcessed,
        SnapshotsKept |-> f.SnapshotsKept,
        SnapshotsRemoved |-> f.SnapshotsRemoved]


----------------------------------------------------------------------------
(* Run: entry and forward steps                                             *)

\* End of the forward steps (service.go:218-224): failedStep is cleared and
\* Run returns nil.
ReturnSuccess ==
    /\ failedStep' = ""
    /\ ReturnFromRun(Nil)

\* A step has succeeded: control falls through to the next step, or to the
\* end of the forward steps.
Proceed(step) ==
    IF StepAfter(step) = "success"
    THEN ReturnSuccess
    ELSE /\ pc' = StepAfter(step)
         /\ UNCHANGED <<returnErr, failedStep>>

\* Variant: a failed step is tried again instead of ending the run.
AbortRetry(e) == UNCHANGED <<pc, returnErr, failedStep>>

\* A step has failed: Run returns its error, failedStep keeps the step.
Abort(e) ==
    /\ ReturnFromRun(e)
    /\ UNCHANGED failedStep

\* Run is entered: locals are initialised and the two exit closures are
\* registered (service.go:74-112).
RunStart ==
    /\ pc = "idle"
    /\ wolAttempted' = cfg.WOL.present
    /\ wolSucceeded' = FALSE
    /\ deferred' = ExitClosures
    /\ pc' = FirstStep
    /\ UNCHANGED <<cfg, keyReadable, inflight, failedStep, backupStats,
                   forgetStats, returnErr, pgDumpPath, dumpFile, backupArgs,
                   ret, msg, trace, returned>>
    /\ UNCHANGED <<adapterVars, callerVars>>

\* Step 1: Wake-on-LAN.
WakeCall ==
    /\ pc = "wol" /\ inflight = "none"
    /\ failedStep' = "wol"
    /\ Invoke("Wake")
    /\ UNCHANGED <<cfg, keyReadable, pc, wolAttempted, wolSucceeded,
                   backupStats, forgetStats, returnErr, pgDumpPath, deferred,
                   dumpFile, backupArgs, ret, msg, returned>>
    /\ UNCHANGED <<adapterVars, callerVars>>

\* Variant: the wake step is marked as succeeded whatever Wake returned.
WakeHandleMarkAlways(r) ==
    /\ pc = "wol"
    /\ Receive("Wake", r)
    /\ wolSucceeded' = TRUE
    /\ IF RunWOLErr(r) # Nil
       THEN Abort(RunWOLErr(r))
       ELSE Proceed("wol")
    /\ UNCHANGED <<cfg, keyReadable, wolAttempted, backupStats,
                   forgetStats, pgDumpPath, deferred, dumpFile, backupArgs,
                   msg, returned>>

\* runWOL and step 1 of Run once Wake has returned r.
WakeHandle(r) ==
    /\ pc = "wol"
    /\ Receive("Wake", r)
    /\ IF RunWOLErr(r) # Nil
       THEN /\ Abort(RunWOLErr(r))
            /\ UNCHANGED wolSucceeded
       ELSE /\ wolSucceeded' = TRUE
            /\ Proceed("wol")
    /\ UNCHANGED <<cfg, keyReadable, wolAttempted, backupStats,
                   forgetStats, pgDumpPath, deferred, dumpFile, backupArgs,
                   msg, returned>>

\* Step 2: repository initialisation.
InitCall ==
    /\ pc = "init" /\ inflight = "none"
    /\ failedStep' = "init"
    /\ Invoke("Init")
    /\ UNCHANGED <<cfg, keyReadable, pc, wolAttempted, wolSucceeded,
                   backupStats, forgetStats, returnErr, pgDumpPath, deferred,
                   dumpFile, backupArgs, ret, msg, returned>>
    /\ UNCHANGED <<adapterVars, callerVars>>

\* Step 2 of Run once Init has returned r.
InitHandle(r) ==
    /\ pc = "init"
    /\ Receive("Init", r)
    /\ IF r.kind # "ok"
       THEN Abort(Wrap("init failed", r.Error))
       ELSE Proceed("init")
    /\ UNCHANGED <<cfg, keyReadable, wolAttempted, wolSucceeded,
                   backupStats, forgetStats, pgDumpPath, deferred, dumpFile,
                   backupArgs, msg, returned>>

\* Step 3: PostgreSQL dump.
DumpCall ==
    /\ pc = "postgres" /\ inflight = "none"
    /\ failedStep' = "postgres"
    /\ Invoke("Dump")
    /\ UNCHANGED <<cfg, keyReadable, pc, wolAttempted, wolSucceeded,
                   backupStats, forgetStats, returnErr, pgDumpPath, deferred,
                   dumpFile, backupArgs, ret, msg, returned>>
    /\ UNCHANGED <<adapterVars, callerVars>>

\* Variant: no removal of the dump file is registered.
DumpHandleNoCleanup(r) ==
    /\ pc = "postgres"
    /\ Receive("Dump", r)
    /\ IF RunPostgresDumpErr(r) # Nil
       THEN /\ Abort(RunPostgresDumpErr(r))
            /\ UNCHANGED pgDumpPath
       ELSE /\ pgDumpPath' = r.OutputPath
            /\ Proceed("postgres")
    /\ UNCHANGED <<cfg, keyReadable, wolAttempted, wolSucceeded,
                   backupStats, forgetStats, backupArgs, msg, returned,
                   deferred>>

\* Variant: the removal of the dump file is registered below the two exit
\* closures, so that it runs after them.
DumpHandleRemoveLast(r) ==
    /\ pc = "postgres"
    /\ Receive("Dump", r)
    /\ IF RunPostgresDumpErr(r) # Nil
       THEN /\ Abort(RunPostgresDumpErr(r))
            /\ UNCHANGED <<pgDumpPath, deferred>>
       ELSE /\ pgDumpPath' = r.OutputPath
            /\ deferred' = <<"remove">> \o deferred
            /\ Proceed("postgres")
    /\ UNCHANGED <<cfg, keyReadable, wolAttempted, wolSucceeded,
                   backupStats, forgetStats, backupArgs, msg, returned>>

\* Step 3 of Run once Dump has returned r: the removal of the dump file is
\* registered as an exit closure on success.
DumpHandle(r) ==
    /\ pc = "postgres"
    /\ Receive("Dump", r)
    /\ IF RunPostgresDumpErr(r) # Nil
       THEN /\ Abort(RunPostgresDumpErr(r))
            /\ UNCHANGED <<pgDumpPath, deferred>>
       ELSE /\ pgDumpPath' = r.OutputPath
            /\ deferred' = Append(deferred, "remove")
            /\ Proceed("postgres")
    /\ UNCHANGED <<cfg, keyReadable, wolAttempted, wolSucceeded,
                   backupStats, forgetStats, backupArgs, msg, returned>>

\* Step 4: backup.
BackupCall ==
    /\ pc = "backup" /\ inflight = "none"
    /\ failedStep' = "backup"
    /\ backupArgs' = [called |-> TRUE, Paths |-> BackupPaths,
                      Tags |-> ConfiguredTags, Host |-> ConfiguredHost]
    /\ Invoke("Backup")
    /\ UNCHANGED <<cfg, keyReadable, pc, wolAttempted, wolSucceeded,
                   backupStats, forgetStats, returnErr, pgDumpPath, deferred,
                   dumpFile, ret, msg, returned>>
    /\ UNCHANGED <<adapterVars, callerVars>>

\* Variant: the result is stored before its Error field is inspected.
BackupHandleStoreEarly(r) ==
    /\ pc = "backup"
    /\ Receive("Backup", r)
    /\ backupStats' = IF r.kind = "terr" THEN backupStats
                      ELSE [present |-> TRUE, data |-> r.data]
    /\ IF BackupErr(r) # Nil
       THEN Abort(BackupErr(r))
       ELSE Proceed("backup")
    /\ UNCHANGED <<cfg, keyReadable, wolAttempted, wolSucceeded,
                   forgetStats, pgDumpPath, deferred, dumpFile, backupArgs,
                   msg, returned>>

\* Step 4 of Run once Backup has returned r.
BackupHandle(r) ==
    /\ pc = "backup"
    /\ Receive("Backup", r)
    /\ IF BackupErr(r) # Nil
       THEN /\ Abort(BackupErr(r))
            /\ UNCHANGED backupStats
       ELSE /\ backupStats' = [present |-> TRUE, data |-> r.data]
            /\ Proceed("backup")
    /\ UNCHANGED <<cfg, keyReadable, wolAttempted, wolSucceeded,
                   forgetStats, pgDumpPath, deferred, dumpFile, backupArgs,
                   msg, returned>>


\* Step 5: retention policy.
ForgetCall ==
    /\ pc = "forget" /\ inflight = "none"
    /\ failedStep' = "forget"
    /\ Invoke("Forget")
    /\ UNCHANGED <<cfg, keyReadable, pc, wolAttempted, wolSucceeded,
                   backupStats, forgetStats, returnErr, pgDumpPath, deferred,
                   dumpFile, backupArgs, ret, msg, returned>>
    /\ UNCHANGED <<adapterVars, callerVars>>

\* Step 5 of Run once Forget has returned r.
ForgetHandle(r) ==
    /\ pc = "forget"
    /\ Receive("Forget", r)
    /\ IF ForgetErr(r) # Nil
       THEN /\ Abort(ForgetErr(r))
            /\ UNCHANGED forgetStats
       ELSE /\ forgetStats' = [present |-> TRUE, data |-> r.data]
            /\ Proceed("forget")
    /\ UNCHANGED <<cfg, keyReadable, wolAttempted, wolSucceeded, backupStats,
                   pgDumpPath, deferred, dumpFile, backupArgs, msg, returned>>

\* Variant: the check step does not set failedStep.
CheckCallKeepStep ==
    /\ pc = "check" /\ inflight = "none"
    /\ Invoke("Check")
    /\ UNCHANGED <<cfg, keyReadable, pc, failedStep, wolAttempted,
                   wolSucceeded, backupStats, forgetStats, returnErr,
                   pgDumpPath, deferred, dumpFile, backupArgs, ret, msg,
                   returned>>
    /\ UNCHANGED <<adapterVars, callerVars>>

\* Step 6: repository check.
CheckCall ==
    /\ pc = "check" /\ inflight = "none"
    /\ failedStep' = "check"
    /\ Invoke("Check")
    /\ UNCHANGED <<cfg, keyReadable, pc, wolAttempted, wolSucceeded,
                   backupStats, forgetStats, returnErr, pgDumpPath, deferred,
                   dumpFile, backupArgs, ret, msg, returned>>
    /\ UNCHANGED <<adapterVars, callerVars>>

\* Step 6 of Run once Check has returned r.
CheckHandle(r) ==
    /\ pc = "check"
    /\ Receive("Check", r)
    /\ IF CheckErr(r) # Nil
       THEN Abort(CheckErr(r))
       ELSE Proceed("check")
    /\ UNCHANGED <<cfg, keyReadable, wolAttempted, wolSucceeded, backupStats,
                   forgetStats, pgDumpPath, deferred, dumpFile, backupArgs,
                   msg, returned>>

----------------------------------------------------------------------------
(* Run: deferred closures, last registered first                            *)

\* Closure registered after a successful dump: os.Remove(pgDumpPath).
DeferRemoveDump ==
    /\ pc = "exit" /\ deferred # <<>> /\ Top(deferred) = "remove"
    /\ dumpFile' = FALSE
    /\ trace' = Append(trace, RemoveEv)
    /\ deferred' = Pop(deferred)
    /\ UNCHANGED <<cfg, keyReadable, pc, inflight, failedStep, wolAttempted,
                   wolSucceeded, backupStats, forgetStats, returnErr,
                   pgDumpPath, backupArgs, ret, msg, returned>>
    /\ UNCHANGED <<adapterVars, callerVars>>

\* Variant: a shutdown error always replaces the recorded error.
RecordShutdownErrAlways(err) ==
    IF err # Nil
    THEN /\ failedStep' = "ssh_shutdown"
         /\ returnErr' = err
    ELSE UNCHANGED <<failedStep, returnErr>>

\* What the shutdown closure does with the error of runSSHShutdown: it
\* becomes the result of Run only when no error is recorded yet.
RecordShutdownErr(err) ==
    IF err # Nil /\ returnErr = Nil
    THEN /\ failedStep' = "ssh_shutdown"
         /\ returnErr' = err
    ELSE UNCHANGED <<failedStep, returnErr>>

\* Shutdown closure up to the adapter call: the wake-gate, then the key load
\* of runSSHShutdown.  The closure ends here when the gate is closed or the
\* key file cannot be read.
DeferShutdown ==
    /\ pc = "exit" /\ deferred # <<>> /\ Top(deferred) = "shutdown"
    /\ inflight = "none"
    /\ IF ~ShouldShutdown
       THEN /\ deferred' = Pop(deferred)
            /\ UNCHANGED <<cfg, failedStep, returnErr, inflight, trace>>
       ELSE IF NeedsKeyLoad /\ ~keyReadable
       THEN /\ RecordShutdownErr(KeyReadErr)
            /\ deferred' = Pop(deferred)
            /\ UNCHANGED <<cfg, inflight, trace>>
       ELSE /\ cfg' = IF NeedsKeyLoad
                      THEN [cfg EXCEPT !.SSHShutdown.PrivateKey = "key"]
                      ELSE cfg
            /\ Invoke("Shutdown")
            /\ UNCHANGED <<failedStep, returnErr, deferred>>
    /\ UNCHANGED <<keyReadable, pc, wolAttempted, wolSucceeded, backupStats,
                   forgetStats, pgDumpPath, dumpFile, backupArgs, ret, msg,
                   returned>>
    /\ UNCHANGED <<adapterVars, callerVars>>

\* runSSHShutdown and the shutdown closure once Shutdown has returned r.
ShutdownHandle(r) ==
    /\ pc = "exit" /\ deferred # <<>> /\ Top(deferred) = "shutdown"
    /\ Receive("Shutdown", r)
    /\ RecordShutdownErr(RunSSHShutdownErr(r))
    /\ deferred' = Pop(deferred)
    /\ UNCHANGED <<cfg, keyReadable, pc, wolAttempted, wolSucceeded,
                   backupStats, forgetStats, pgDumpPath, dumpFile, backupArgs,
                   msg, returned>>

\* Variant: the arguments of the notification are evaluated when the
\* closure is registered (defer of the call instead of a closure).
DeferNotifyEagerArgs ==
    /\ pc = "exit" /\ deferred # <<>> /\ Top(deferred) = "notify"
    /\ inflight = "none"
    /\ IF cfg.Telegram
       THEN /\ msg' = BuildMessage("", Nil, NoStats, NoStats)
            /\ Invoke("Notify")
            /\ UNCHANGED deferred
       ELSE /\ deferred' = Pop(deferred)
            /\ UNCHANGED <<msg, inflight, trace>>
    /\ UNCHANGED <<cfg, keyReadable, pc, failedStep, wolAttempted,
                   wolSucceeded, backupStats, forgetStats, returnErr,
                   pgDumpPath, dumpFile, backupArgs, ret, returned>>
    /\ UNCHANGED <<adapterVars, callerVars>>

\* Notification closure up to the adapter call.
DeferNotify ==
    /\ pc = "exit" /\ deferred # <<>> /\ Top(deferred) = "notify"
    /\ inflight = "none"
    /\ IF cfg.Telegram
       THEN /\ msg' = BuildMessage(failedStep, returnErr, backupStats,
                                   forgetStats)
            /\ Invoke("Notify")
            /\ UNCHANGED deferred
       ELSE /\ deferred' = Pop(deferred)
            /\ UNCHANGED <<msg, inflight, trace>>
    /\ UNCHANGED <<cfg, keyReadable, pc, failedStep, wolAttempted,
                   wolSucceeded, backupStats, forgetStats, returnErr,
                   pgDumpPath, dumpFile, backupArgs, ret, returned>>
    /\ UNCHANGED <<adapterVars, callerVars>>

\* Variant: a failed notification becomes the error of a run that had none.
NotifyHandleRecordsErr(r) ==
    /\ pc = "exit" /\ deferred # <<>> /\ Top(deferred) = "notify"
    /\ Receive("Notify", r)
    /\ deferred' = Pop(deferred)
    /\ IF r.kind \in {"terr", "rerr"} /\ returnErr = Nil
       THEN /\ returnErr' = Wrap("notification failed", r.Error)
            /\ failedStep' = "notification"
       ELSE UNCHANGED <<returnErr, failedStep>>
    /\ UNCHANGED <<cfg, keyReadable, pc, wolAttempted, wolSucceeded,
                   backupStats, forgetStats, pgDumpPath, dumpFile,
                   backupArgs, msg, returned>>

\* The outcome of SendNotification is only logged.
NotifyHandle(r) ==
    /\ pc = "exit" /\ deferred # <<>> /\ Top(deferred) = "notify"
    /\ Receive("Notify", r)
    /\ deferred' = Pop(deferred)
    /\ UNCHANGED <<cfg, keyReadable, pc, failedStep, wolAttempted,
                   wolSucceeded, backupStats, forgetStats, returnErr,
                   pgDumpPath, dumpFile, backupArgs, msg, returned>>

\* All closures have run: Run hands returnErr to its caller.
RunReturn ==
    /\ pc = "exit" /\ deferred = <<>>
    /\ pc' = "done"
    /\ returned' = TRUE
    /\ UNCHANGED <<cfg, keyReadable, inflight, failedStep, wolAttempted,
                   wolSucceeded, backupStats, forgetStats, returnErr,
                   pgDumpPath, deferred, dumpFile, backupArgs, ret, msg, trace>>
    /\ UNCHANGED <<adapterVars, callerVars>>

\* The adapters seen through their interfaces: each open call returns any
\* value of the shape the interface allows.
WakeReturn ==
    /\ \E r \in WakeReturns : WakeHandle(r)
    /\ UNCHANGED <<adapterVars, callerVars>>

InitReturn ==
    /\ \E r \in InitReturns : InitHandle(r)
    /\ UNCHANGED <<adapterVars, callerVars>>

\* A Dump behind the interface leaves its file exactly when it succeeds.
DumpReturn ==
    /\ \E r \in DumpReturns : /\ DumpHandle(r)
                              /\ dumpFile' = (r.kind = "ok")
    /\ UNCHANGED <<adapterVars, callerVars>>

BackupReturn ==
    /\ \E r \in BackupReturns : BackupHandle(r)
    /\ UNCHANGED <<adapterVars, callerVars>>

ForgetReturn ==
    /\ \E r \in ForgetReturns : ForgetHandle(r)
    /\ UNCHANGED <<adapterVars, callerVars>>

CheckReturn ==
    /\ \E r \in CheckReturns : CheckHandle(r)
    /\ UNCHANGED <<adapterVars, callerVars>>

ShutdownReturn ==
    /\ \E r \in ShutdownReturns : ShutdownHandle(r)
    /\ UNCHANGED <<adapterVars, callerVars>>

NotifyReturn ==
    /\ \E r \in NotifyReturns : NotifyHandle(r)
    /\ UNCHANGED <<adapterVars, callerVars>>

Next ==
    \/ RunStart
    \/ WakeCall \/ WakeReturn
    \/ InitCall \/ InitReturn
    \/ DumpCall \/ DumpReturn
    \/ BackupCall \/ BackupReturn
    \/ ForgetCall \/ ForgetReturn
    \/ CheckCall \/ CheckReturn
    \/ DeferRemoveDump
    \/ DeferShutdown \/ ShutdownReturn
    \/ DeferNotify \/ NotifyReturn
    \/ RunReturn

Spec == Init /\ [][Next]_vars

----------------------------------------------------------------------------
(* The Wake adapter (internal/services/wol/service.go, Impl.Wake and       *)
(* Impl.waitForTarget), the clock and the cancellation of the context.     *)
(* A thread blocked in a select is resumed by the first event that makes   *)
(* one of its cases ready: the cancellation or the tick that expires the   *)
(* timer.                                                                  *)

\* Largest value of the clock.
MaxClock == 4

\* context.Canceled, the value of ctx.Err() once the context is cancelled.
CtxCanceled == <<"context canceled">>

\* fmt.Errorf("invalid MAC address %q: %w", cfg.MACAddress, err)
InvalidMACErr == <<"invalid MAC address", "net.ParseMAC error">>

\* The error of wolClient.Wake.
SendPacketErr == <<"failed to send WOL packet", "network error">>

\* fmt.Errorf("timeout waiting for target at %s", cfg.PollURL)
TimeoutErr(url) == <<"timeout", "waiting for target at", url>>

\* fmt.Errorf("failed to create request: %w", err)
CreateRequestErr == <<"failed to create request", "net/url parse error">>

\* A poll URL http.NewRequestWithContext rejects.
MalformedURL == "http://%zz"

\* What httpClient.Do hands back: an error, or a response with a status.
PollOutcomes == {"err", "200", "503"}

\* The conversion of a returned pair to what the caller tests: err first,
\* then result.Error.
AsReturn(out) ==
    IF out.err # Nil THEN [kind |-> "terr", Error |-> out.err]
    ELSE IF out.result = NilResult THEN [kind |-> "nil"]
    ELSE [kind |-> IF out.result.Error # Nil THEN "rerr" ELSE "ok"]
         @@ out.result

\* Variant: a failure is handed back as (nil, err).
WakeEndsErrAsTransport(res) ==
    /\ wResult' = res
    /\ wOut' = IF res.Error # Nil
               THEN [result |-> NilResult, err |-> res.Error,
                     returned |-> TRUE]
               ELSE [result |-> res, err |-> Nil, returned |-> TRUE]
    /\ wpc' = "return"

\* return result, nil
WakeEnds(res) ==
    /\ wResult' = res
    /\ wOut' = [result |-> res, err |-> Nil, returned |-> TRUE]
    /\ wpc' = "return"

\* Variant: without a poll URL the stabilization wait is still performed.
WakeSendPacketStabilizes ==
    /\ inflight = "Wake" /\ wpc = "idle"
    /\ IF ~cfg.WOL.MACValid
       THEN /\ WakeEnds([NoResult EXCEPT !.Error = InvalidMACErr])
            /\ UNCHANGED <<wDeadline, wTimer>>
       ELSE \E sent \in BOOLEAN :
            IF ~sent
            THEN /\ WakeEnds([NoResult EXCEPT !.Error = SendPacketErr])
                 /\ UNCHANGED <<wDeadline, wTimer>>
            ELSE IF cfg.WOL.PollURL = "" /\ cfg.WOL.StabilizeWait = 0
            THEN /\ WakeEnds([NoResult EXCEPT !.PacketSent = TRUE,
                                              !.TargetReady = TRUE])
                 /\ UNCHANGED <<wDeadline, wTimer>>
            ELSE IF cfg.WOL.PollURL = ""
            THEN /\ wResult' = [NoResult EXCEPT !.PacketSent = TRUE]
                 /\ wTimer' = now + cfg.WOL.StabilizeWait
                 /\ wpc' = "stabilize_enter"
                 /\ UNCHANGED <<wOut, wDeadline>>
            ELSE /\ wResult' = [NoResult EXCEPT !.PacketSent = TRUE]
                 /\ wDeadline' = now + cfg.WOL.Timeout
                 /\ wpc' = "loop"
                 /\ UNCHANGED <<wOut, wTimer>>
    /\ UNCHANGED <<cancelled, now, wPolls, wLog, wCancelAt, wPollsAtCancel>>
    /\ UNCHANGED <<runVars, callerVars, repoVars, execVars, sshVars>>

\* Wake up to the call of waitForTarget (service.go:270-308) and the first
\* statement of waitForTarget (337).
WakeSendPacket ==
    /\ inflight = "Wake" /\ wpc = "idle"
    /\ IF ~cfg.WOL.MACValid
       THEN /\ WakeEnds([NoResult EXCEPT !.Error = InvalidMACErr])
            /\ UNCHANGED wDeadline
       ELSE \E sent \in BOOLEAN :
            IF ~sent
            THEN /\ WakeEnds([NoResult EXCEPT !.Error = SendPacketErr])
                 /\ UNCHANGED wDeadline
            ELSE IF cfg.WOL.PollURL = ""
            THEN /\ WakeEnds([NoResult EXCEPT !.PacketSent = TRUE,
                                              !.TargetReady = TRUE])
                 /\ UNCHANGED wDeadline
            ELSE /\ wResult' = [NoResult EXCEPT !.PacketSent = TRUE]
                 /\ wDeadline' = now + cfg.WOL.Timeout
                 /\ wpc' = "loop"
                 /\ UNCHANGED wOut
    /\ UNCHANGED <<cancelled, now, wTimer, wPolls, wLog, wCancelAt,
                   wPollsAtCancel>>
    /\ UNCHANGED <<runVars, callerVars, repoVars, execVars, sshVars>>

\* Top of the polling loop up to the call of httpClient.Do
\* (service.go:339-356).
WakeLoopTop ==
    /\ wpc = "loop"
    /\ IF cancelled
       THEN /\ WakeEnds([wResult EXCEPT !.Error = CtxCanceled])
            /\ UNCHANGED wPolls
       ELSE IF now > wDeadline
       THEN /\ WakeEnds([wResult EXCEPT
                            !.Error = TimeoutErr(cfg.WOL.PollURL)])
            /\ UNCHANGED wPolls
       ELSE IF cfg.WOL.PollURL = MalformedURL
       THEN /\ WakeEnds([wResult EXCEPT !.Error = CreateRequestErr])
            /\ UNCHANGED wPolls
       ELSE /\ wPolls' = wPolls + 1
            /\ wpc' = "poll"
            /\ UNCHANGED <<wResult, wOut>>
    /\ UNCHANGED <<cancelled, now, wDeadline, wTimer, wLog, wCancelAt,
                   wPollsAtCancel>>
    /\ UNCHANGED <<runVars, callerVars, repoVars, execVars, sshVars>>

\* httpClient.Do has handed back o (service.go:356-370): without an error
\* waitForTarget returns nil and Wake goes on to the stabilization wait
\* (314-316, 326-333); with an error the timer of the poll wait is started.
WakePollEnds(o) ==
    /\ wLog' = Append(wLog, o)
    /\ IF o # "err"
       THEN IF cfg.WOL.StabilizeWait > 0
            THEN /\ wTimer' = now + cfg.WOL.StabilizeWait
                 /\ wpc' = "stabilize_enter"
                 /\ UNCHANGED <<wResult, wOut>>
            ELSE /\ WakeEnds([wResult EXCEPT !.TargetReady = TRUE])
                 /\ UNCHANGED wTimer
       ELSE /\ wTimer' = now + cfg.WOL.PollInterval
            /\ wpc' = "pollwait_enter"
            /\ UNCHANGED <<wResult, wOut>>

WakePollReturn ==
    /\ wpc = "poll"
    /\ \E o \in PollOutcomes : WakePollEnds(o)
    /\ UNCHANGED <<cancelled, now, wDeadline, wPolls, wCancelAt,
                   wPollsAtCancel>>
    /\ UNCHANGED <<runVars, callerVars, repoVars, execVars, sshVars>>

\* Variant: the stabilization wait is a plain sleep.
SelectTakesNoCtxInStabilize(case) ==
    IF wpc \in {"pollwait_enter", "pollwait"}
    THEN IF case = "ctx"
         THEN WakeEnds([wResult EXCEPT !.Error = CtxCanceled])
         ELSE /\ wpc' = "loop"
              /\ UNCHANGED <<wResult, wOut>>
    ELSE WakeEnds([wResult EXCEPT !.TargetReady = TRUE])

\* Variant: a wait ended by cancellation still reports the target ready.
SelectTakesReadyOnCancel(case) ==
    IF case = "ctx"
    THEN WakeEnds([wResult EXCEPT !.Error = CtxCanceled,
                                  !.TargetReady = TRUE])
    ELSE IF wpc \in {"pollwait_enter", "pollwait"}
    THEN /\ wpc' = "loop"
         /\ UNCHANGED <<wResult, wOut>>
    ELSE WakeEnds([wResult EXCEPT !.TargetReady = TRUE])

\* The select of the poll wait (366-370) or of the stabilization wait
\* (317-323) takes a case: on ctx.Done() Wake returns ctx.Err(); on the
\* timer the poll wait goes back to the top of the loop and the
\* stabilization wait ends with TargetReady set (326-333).
SelectTakes(case) ==
    IF case = "ctx"
    THEN WakeEnds([wResult EXCEPT !.Error = CtxCanceled])
    ELSE IF wpc \in {"pollwait_enter", "pollwait"}
    THEN /\ wpc' = "loop"
         /\ UNCHANGED <<wResult, wOut>>
    ELSE WakeEnds([wResult EXCEPT !.TargetReady = TRUE])

\* The cases of the select that are ready.
ReadyCases ==
    {c \in {"ctx", "timer"} : \/ c = "ctx" /\ cancelled
                              \/ c = "timer" /\ now >= wTimer}

\* The thread reaches the select: it takes one of the ready cases, any of
\* them when several are ready, and blocks when none is.
WakeSelect ==
    /\ wpc \in {"pollwait_enter", "stabilize_enter"}
    /\ IF ReadyCases = {}
       THEN /\ wpc' = IF wpc = "pollwait_enter" THEN "pollwait"
                      ELSE "stabilize"
            /\ UNCHANGED <<wResult, wOut>>
       ELSE \E c \in ReadyCases : SelectTakes(c)
    /\ UNCHANGED <<cancelled, now, wDeadline, wTimer, wPolls, wLog,
                   wCancelAt, wPollsAtCancel>>
    /\ UNCHANGED <<runVars, callerVars, repoVars, execVars, sshVars>>

\* Wake is blocked in a select.
Blocked == wpc \in {"pollwait", "stabilize"}

----------------------------------------------------------------------------
(* The Shutdown adapter (ssh/service.go:134-227) as the thread that runs   *)
(* it, with the goroutine that connects and the remote side.  The select   *)
(* is the only place where Shutdown looks at the context before the        *)
(* command has returned; NewSession and CombinedOutput take no context.    *)

\* What Shutdown returns before the command has run.
ShutdownFails(e) == [CommandRun |-> FALSE, Error |-> e]

\* return result, nil
ShutdownEnds(res) ==
    /\ sOut' = [result |-> res, err |-> Nil, returned |-> TRUE]
    /\ spc' = "return"

\* buildConfig and the start of the connecting goroutine (142-162).
ShutdownBuildConfig ==
    /\ inflight = "Shutdown" /\ spc = "idle"
    /\ IF cfg.SSHShutdown.PrivateKey = "nil" /\ cfg.SSHShutdown.KeyPath = ""
       THEN /\ ShutdownEnds(ShutdownFails(<<"no private key provided">>))
            /\ UNCHANGED sDial
       ELSE \E keyParses \in BOOLEAN :
            IF ~keyParses
            THEN /\ ShutdownEnds(ShutdownFails(
                       Wrap("failed to parse private key",
                            <<"ssh: no key found">>)))
                 /\ UNCHANGED sDial
            ELSE /\ sDial' = "running"
                 /\ spc' = "select_enter"
                 /\ UNCHANGED sOut
    /\ UNCHANGED <<sClient, sCancelAt, sWaited, sCtxAtDial>>
    /\ UNCHANGED <<cancelled, now, wpc, wDeadline, wTimer, wPolls, wLog,
                   wResult, wOut, wCancelAt, wPollsAtCancel>>
    /\ UNCHANGED <<runVars, callerVars, repoVars, execVars>>

\* The select of Shutdown (165-176) takes a case: on ctx.Done() Shutdown
\* returns ctx.Err(); on clientChan it returns the connection error or goes
\* on with the client.
ShutdownTakes(case, dial) ==
    IF case = "ctx"
    THEN ShutdownEnds(ShutdownFails(CtxCanceled))
    ELSE IF dial = "err"
    THEN ShutdownEnds(ShutdownFails(Wrap("failed to connect",
                                         <<"dial error">>)))
    ELSE /\ spc' = "session"
         /\ UNCHANGED sOut

\* The cases of the select of Shutdown that are ready.
ShutdownReadyCases ==
    {c \in {"ctx", "chan"} : \/ c = "ctx" /\ cancelled
                             \/ c = "chan" /\ sDial \in {"ok", "err"}}

\* Shutdown reaches its select: it takes one of the ready cases, any of
\* them when both are ready, and blocks when none is.
ShutdownSelect ==
    /\ spc = "select_enter"
    /\ IF ShutdownReadyCases = {}
       THEN /\ spc' = "connecting"
            /\ UNCHANGED sOut
       ELSE \E c \in ShutdownReadyCases : ShutdownTakes(c, sDial)
    /\ UNCHANGED <<sDial, sClient, sCancelAt, sWaited, sCtxAtDial>>
    /\ UNCHANGED <<cancelled, now, wpc, wDeadline, wTimer, wPolls, wLog,
                   wResult, wOut, wCancelAt, wPollsAtCancel>>
    /\ UNCHANGED <<runVars, callerVars, repoVars, execVars>>

\* clientFactory.NewClient returns in the goroutine, which puts the pair
\* into the buffered clientChan (155-162); a Shutdown blocked in its select
\* receives it.  NewClient takes no context.
DialEnds ==
    /\ sDial = "running"
    /\ \E ok \in BOOLEAN :
          /\ sDial' = IF ok THEN "ok" ELSE "err"
          /\ sClient' = IF ok THEN "open" ELSE sClient
          /\ IF spc = "connecting"
             THEN ShutdownTakes("chan", IF ok THEN "ok" ELSE "err")
             ELSE UNCHANGED <<spc, sOut>>
    /\ sCtxAtDial' = cancelled
    /\ UNCHANGED <<sCancelAt, sWaited>>
    /\ UNCHANGED <<cancelled, now, wpc, wDeadline, wTimer, wPolls, wLog,
                   wResult, wOut, wCancelAt, wPollsAtCancel>>
    /\ UNCHANGED <<runVars, callerVars, repoVars, execVars>>

\* client.NewSession returns (179-184): the remote side has answered the
\* channel request, or the connection has failed.  On failure the deferred
\* client.Close runs.
SessionEnds ==
    /\ spc = "session"
    /\ \E ok \in BOOLEAN :
          IF ok
          THEN /\ spc' = "command"
               /\ UNCHANGED <<sOut, sClient>>
          ELSE /\ ShutdownEnds(ShutdownFails(
                     Wrap("failed to create session", <<"session error">>)))
               /\ sClient' = "closed"
    /\ sWaited' = (sWaited \/ cancelled)
    /\ UNCHANGED <<sDial, sCancelAt, sCtxAtDial>>
    /\ UNCHANGED <<cancelled, now, wpc, wDeadline, wTimer, wPolls, wLog,
                   wResult, wOut, wCancelAt, wPollsAtCancel>>
    /\ UNCHANGED <<runVars, callerVars, repoVars, execVars>>

\* session.CombinedOutput returns (204-219): the remote command has ended,
\* or the connection has.  An error is put on the result only when the
\* context is done by then; the deferred Close calls run.
CommandEnds ==
    /\ spc = "command"
    /\ \E ok \in BOOLEAN :
          ShutdownEnds([CommandRun |-> TRUE,
                        Error |-> IF ~ok /\ cancelled THEN CtxCanceled
                                  ELSE Nil])
    /\ sClient' = "closed"
    /\ sWaited' = (sWaited \/ cancelled)
    /\ UNCHANGED <<sDial, sCancelAt, sCtxAtDial>>
    /\ UNCHANGED <<cancelled, now, wpc, wDeadline, wTimer, wPolls, wLog,
                   wResult, wOut, wCancelAt, wPollsAtCancel>>
    /\ UNCHANGED <<runVars, callerVars, repoVars, execVars>>

\* Shutdown hands its pair back to runSSHShutdown.
ShutdownAdapterReturn ==
    /\ spc = "return"
    /\ ShutdownHandle(AsReturn(sOut))
    /\ spc' = "returned"
    /\ UNCHANGED <<sDial, sClient, sOut, sCancelAt, sWaited, sCtxAtDial>>
    /\ UNCHANGED <<cancelled, now, wpc, wDeadline, wTimer, wPolls, wLog,
                   wResult, wOut, wCancelAt, wPollsAtCancel>>
    /\ UNCHANGED <<callerVars, repoVars, execVars>>

----------------------------------------------------------------------------
(* The context and the clock                                              *)

\* A SIGINT or SIGTERM is delivered to sigChan while the process runs.
Interrupt ==
    /\ ~sigPending /\ ~cancelled /\ ~returned
    /\ sigPending' = TRUE
    /\ UNCHANGED <<cfg0, runAtCancel>>
    /\ UNCHANGED <<runVars, adapterVars>>

\* What Run is doing: the adapter call in progress, if any.
RunPosition ==
    IF pc = "idle" THEN "not started"
    ELSE IF returned THEN "returned"
    ELSE inflight

\* Variant: the listener also writes the classification of the run.
CancelMarksRun ==
    /\ sigPending /\ ~cancelled
    /\ cancelled' = TRUE
    /\ sigPending' = FALSE
    /\ runAtCancel' = RunPosition
    /\ failedStep' = "interrupted"
    /\ wCancelAt' = IF inflight = "Wake" THEN wpc ELSE ""
    /\ wPollsAtCancel' = wPolls
    /\ IF Blocked
       THEN SelectTakes("ctx")
       ELSE UNCHANGED <<wResult, wOut, wpc>>
    /\ sCancelAt' = IF inflight = "Shutdown" THEN spc ELSE ""
    /\ IF spc = "connecting"
       THEN ShutdownTakes("ctx", sDial)
       ELSE UNCHANGED <<spc, sOut>>
    /\ UNCHANGED <<sDial, sClient, sWaited, sCtxAtDial>>
    /\ UNCHANGED <<now, wDeadline, wTimer, wPolls, wLog, cfg0,
                   repoVars, execVars>>
    /\ UNCHANGED <<cfg, keyReadable, pc, inflight, wolAttempted,
                   wolSucceeded, backupStats, forgetStats, returnErr,
                   pgDumpPath, deferred, dumpFile, backupArgs, ret, msg,
                   trace, returned>>

\* The listener goroutine of runBackup receives the signal and calls
\* cancel(): the context handed to Run is done.  A thread blocked in one of
\* the selects of Wake, or in the select of Shutdown, is resumed on the
\* ctx.Done() case.
Cancel ==
    /\ sigPending /\ ~cancelled
    /\ cancelled' = TRUE
    /\ sigPending' = FALSE
    /\ runAtCancel' = RunPosition
    /\ wCancelAt' = IF inflight = "Wake" THEN wpc ELSE ""
    /\ wPollsAtCancel' = wPolls
    /\ IF Blocked
       THEN SelectTakes("ctx")
       ELSE UNCHANGED <<wResult, wOut, wpc>>
    /\ sCancelAt' = IF inflight = "Shutdown" THEN spc ELSE ""
    /\ IF spc = "connecting"
       THEN ShutdownTakes("ctx", sDial)
       ELSE UNCHANGED <<spc, sOut>>
    /\ UNCHANGED <<sDial, sClient, sWaited, sCtxAtDial>>
    /\ UNCHANGED <<now, wDeadline, wTimer, wPolls, wLog, cfg0,
                   repoVars, execVars>>
    /\ UNCHANGED runVars

\* The clock advances while Wake runs (nothing else reads it).  A thread
\* blocked in a select is resumed on the timer case when the timer expires.
Tick ==
    /\ wpc \in {"loop", "poll", "pollwait_enter", "pollwait",
                 "stabilize_enter", "stabilize"}
    /\ now < MaxClock
    /\ now' = now + 1
    /\ IF Blocked /\ now + 1 >= wTimer
       THEN SelectTakes("timer")
       ELSE UNCHANGED <<wResult, wOut, wpc>>
    /\ UNCHANGED <<cancelled, wDeadline, wTimer, wPolls, wLog, wCancelAt,
                   wPollsAtCancel>>
    /\ UNCHANGED <<runVars, callerVars, repoVars, execVars, sshVars>>

\* Wake hands its pair back to runWOL; its frame is gone.
WakeAdapterReturn ==
    /\ wpc = "return"
    /\ WakeHandle(AsReturn(wOut))
    /\ wpc' = "returned"
    /\ now' = 0
    /\ wDeadline' = 0
    /\ wTimer' = 0
    /\ wPolls' = 0
    /\ wLog' = <<>>
    /\ wResult' = NoResult
    /\ wOut' = NoOut
    /\ wCancelAt' = ""
    /\ wPollsAtCancel' = 0
    /\ UNCHANGED <<cancelled, callerVars, repoVars, execVars, sshVars>>

----------------------------------------------------------------------------
(* The other adapters, each as the pair it returns for what its            *)
(* environment does.  A command or request started with a context that is  *)
(* done fails.                                                             *)

\* Variant: commands start and may succeed whatever the state of the
\* context.
ExecOutcomesIgnoreCtx == BOOLEAN

\* Whether a command run through exec.CommandContext, or a request sent
\* with the context, can succeed.
ExecOutcomes == IF cancelled THEN {FALSE} ELSE BOOLEAN

ExecErr == <<"exec error">>

\* restic.Impl.Init: nil when `restic snapshots` or `restic init` succeeds.
InitAdapter(snapshotsOk, initOk) ==
    IF snapshotsOk \/ initOk THEN Nil
    ELSE Wrap("failed to initialize repository", ExecErr)

\* Number of calls of Init on one repository.
MaxInitCalls == 4

\* Variant: the creation command is run without looking at the outcome of
\* the snapshot listing.
InitRunsCreateAlways(snapshotsOk) == TRUE

\* Init goes on to `restic init` unless `restic snapshots` succeeded
\* (part_007:94-98).
InitRunsCreate(snapshotsOk) == ~snapshotsOk

\* One call of Init on repository r.  `restic snapshots` succeeds when the
\* repository is initialized and the command gets through to it; `restic
\* init` succeeds when there is no repository yet and the command gets
\* through, and then leaves an initialized repository.
InitOnRepo(r, probeWorks, createWorks) ==
    LET snapshotsOk == r = "initialized" /\ probeWorks
        ranCreate == InitRunsCreate(snapshotsOk)
        initOk == ranCreate /\ r = "absent" /\ createWorks
    IN [before |-> r,
        snapshotsOk |-> snapshotsOk,
        creates |-> IF ranCreate THEN 1 ELSE 0,
        initOk |-> initOk,
        err |-> IF ranCreate THEN InitAdapter(FALSE, initOk)
                ELSE InitAdapter(snapshotsOk, FALSE),
        after |-> IF initOk THEN "initialized" ELSE r]

\* Init returns an error only.
AsInitReturn(e) ==
    IF e = Nil THEN [kind |-> "ok"] ELSE [kind |-> "terr", Error |-> e]

\* postgres.Impl.Dump
DumpAdapter(mkdirOk, execOk) ==
    [result |->
        [OutputPath |-> DumpOutputPath,
         Error |-> IF ~mkdirOk
                   THEN Wrap("failed to create output directory",
                             <<"mkdir error">>)
                   ELSE IF ~execOk THEN ExecErr
                   ELSE Nil],
     err |-> Nil]

\* restic.Impl.Backup: d is what the summary line of the output holds.
BackupAdapter(execOk, d) ==
    IF ~execOk
    THEN [result |-> [data |-> ZeroBackupData,
                      Error |-> Wrap("backup failed", ExecErr)],
          err |-> Nil]
    ELSE [result |-> [data |-> d, Error |-> Nil], err |-> Nil]

\* restic.Impl.Forget: d is what the groups of the output add up to.
ForgetAdapter(execOk, d) ==
    IF ~execOk
    THEN [result |-> [data |-> ZeroForgetData,
                      Error |-> Wrap("forget failed", ExecErr)],
          err |-> Nil]
    ELSE [result |-> [data |-> d, Error |-> Nil], err |-> Nil]

\* restic.Impl.Check: a failed command whose output does not mention an
\* error counts as passed.
CheckAdapter(enabled, execOk, outputHasError) ==
    IF ~enabled
    THEN [result |-> [Passed |-> TRUE, Error |-> Nil], err |-> Nil]
    ELSE IF ~execOk /\ outputHasError
    THEN [result |-> [Passed |-> FALSE,
                      Error |-> Wrap("check failed", ExecErr)],
          err |-> Nil]
    ELSE [result |-> [Passed |-> TRUE, Error |-> Nil], err |-> Nil]

\* escapeHTML, rune by rune; the strings of the model are single tokens,
\* of which only these three are rewritten.
EscapeHTML(s) ==
    CASE s = "<" -> "&lt;"
      [] s = ">" -> "&gt;"
      [] s = "&" -> "&amp;"
      [] OTHER -> s

\* Number of times the loop of formatBytes divides n by 1024.
RECURSIVE UnitExp(_)
UnitExp(n) == IF n >= 1024 THEN 1 + UnitExp(n \div 1024) ELSE 0

RECURSIVE Pow1024(_)
Pow1024(k) == IF k = 0 THEN 1 ELSE 1024 * Pow1024(k - 1)

\* formatBytes: the count below 1024, else tenths of the largest binary
\* unit with its letter ("%.1f %ciB").
FormatBytes(bytes) ==
    IF bytes < 1024
    THEN <<bytes, "B">>
    ELSE LET exp == UnitExp(bytes \div 1024)
             div == Pow1024(exp + 1)
         IN <<(bytes * 10 + div \div 2) \div div, "tenths",
              <<"KiB", "MiB", "GiB", "TiB", "PiB", "EiB">>[exp + 1]>>

\* telegram.Impl.formatMessage: the text as its lines, each a label and
\* the value written after it.  The statistics are written for a
\* successful run only, the error details for a failed one only.
FormatMessage(m) ==
    << IF m.Success THEN <<"Backup Successful">> ELSE <<"Backup Failed">>,
       <<"Host", EscapeHTML(m.Host)>>,
       <<"Repository", EscapeHTML(m.Repository)>> >>
    \o
    IF m.Success
    THEN << <<"Snapshot", m.SnapshotID>>,
            <<"Files new", m.FilesNew>>,
            <<"Files changed", m.FilesChanged>>,
            <<"Files unmodified", m.FilesUnmodified>>,
            <<"Data added", FormatBytes(m.DataAdded)>>,
            <<"Total files", m.TotalFiles>>,
            <<"Total size", FormatBytes(m.TotalBytes)>> >>
         \o
         IF m.SnapshotsRemoved > 0 \/ m.SnapshotsKept > 0
         THEN << <<"Snapshots kept", m.SnapshotsKept>>,
                 <<"Snapshots removed", m.SnapshotsRemoved>> >>
         ELSE <<>>
    ELSE << <<"Failed step", EscapeHTML(m.FailedStep)>>,
            <<"Error", [i \in DOMAIN m.ErrorMessage |->
                           EscapeHTML(m.ErrorMessage[i])]>> >>

\* telegram.Impl.SendNotification
NotifyAdapter(requestOk, doOk, statusOK) ==
    [result |->
        IF ~requestOk
        THEN [MessageSent |-> FALSE,
              Error |-> Wrap("failed to create request",
                             <<"net/url parse error">>)]
        ELSE IF ~doOk
        THEN [MessageSent |-> FALSE,
              Error |-> Wrap("failed to send request", <<"http error">>)]
        ELSE IF ~statusOK
        THEN [MessageSent |-> FALSE,
              Error |-> <<"telegram API returned status", "500">>]
        ELSE [MessageSent |-> TRUE, Error |-> Nil],
     err |-> Nil]

\* Init called by Run on the repository.
InitAdapterReturn ==
    /\ \E probeWorks \in ExecOutcomes, createWorks \in ExecOutcomes :
          LET c == InitOnRepo(repo, probeWorks, createWorks)
          IN /\ InitHandle(AsInitReturn(c.err))
             /\ repo' = c.after
             /\ initLog' = Append(initLog, c)
    /\ UNCHANGED <<cancelled, now, wpc, wDeadline, wTimer, wPolls, wLog,
                   wResult, wOut, wCancelAt, wPollsAtCancel, sshVars,
                   execVars, callerVars>>

\* Init called on its own, as its tests call it, up to MaxInitCalls times
\* on the same repository.
InitCalledAgain ==
    /\ pc = "idle"
    /\ Len(initLog) < MaxInitCalls
    /\ \E probeWorks \in BOOLEAN, createWorks \in BOOLEAN :
          LET c == InitOnRepo(repo, probeWorks, createWorks)
          IN /\ repo' = c.after
             /\ initLog' = Append(initLog, c)
    /\ UNCHANGED <<cancelled, now, wpc, wDeadline, wTimer, wPolls, wLog,
                   wResult, wOut, wCancelAt, wPollsAtCancel, sshVars,
                   execVars, callerVars>>
    /\ UNCHANGED runVars

\* Variant: Dump does not remove the output file when the command fails.
DumpFileAfterNoRemove(mkdirOk, createOk, runOk) ==
    mkdirOk /\ createOk

\* Whether the output file exists when Dump returns: os.Create makes it,
\* pg_dump writes into it, and Dump removes it when the executor fails.
DumpFileAfter(mkdirOk, createOk, runOk) ==
    LET created == mkdirOk /\ createOk
        execErr == ~createOk \/ ~runOk
    IN IF ~mkdirOk THEN FALSE
       ELSE IF execErr THEN FALSE
       ELSE created

\* How the command of Dump ended.
DumpCommand(mkdirOk, createOk, runOk) ==
    IF ~mkdirOk THEN "not run"
    ELSE IF createOk /\ runOk THEN "ok"
    ELSE "failed"

DumpAdapterReturn ==
    /\ \E mkdirOk \in BOOLEAN, createOk \in BOOLEAN, runOk \in ExecOutcomes :
          /\ DumpHandle(AsReturn(DumpAdapter(mkdirOk, createOk /\ runOk)))
          /\ dumpFile' = DumpFileAfter(mkdirOk, createOk, runOk)
          /\ dumpCmd' = DumpCommand(mkdirOk, createOk, runOk)
    /\ UNCHANGED <<cancelled, now, wpc, wDeadline, wTimer, wPolls, wLog,
                   wResult, wOut, wCancelAt, wPollsAtCancel, sshVars,
                   repoVars, checkCmd, callerVars>>

BackupAdapterReturn ==
    /\ \E execOk \in ExecOutcomes, d \in BackupData :
          BackupHandle(AsReturn(BackupAdapter(execOk, d)))
    /\ UNCHANGED <<adapterVars, callerVars>>

ForgetAdapterReturn ==
    /\ \E execOk \in ExecOutcomes, d \in ForgetData :
          ForgetHandle(AsReturn(ForgetAdapter(execOk, d)))
    /\ UNCHANGED <<adapterVars, callerVars>>

\* How the command of Check ended.
CheckCommand(enabled, execOk) ==
    IF ~enabled THEN "not run"
    ELSE IF execOk THEN "ok"
    ELSE "failed"

CheckAdapterReturn ==
    /\ \E execOk \in ExecOutcomes, outputHasError \in BOOLEAN :
          /\ CheckHandle(AsReturn(CheckAdapter(cfg.CheckEnabled, execOk,
                                               outputHasError)))
          /\ checkCmd' = CheckCommand(cfg.CheckEnabled, execOk)
    /\ UNCHANGED <<cancelled, now, wpc, wDeadline, wTimer, wPolls, wLog,
                   wResult, wOut, wCancelAt, wPollsAtCancel, sshVars,
                   repoVars, dumpCmd, callerVars>>

NotifyAdapterReturn ==
    /\ \E requestOk \in BOOLEAN, doOk \in ExecOutcomes,
          statusOK \in BOOLEAN :
          NotifyHandle(AsReturn(NotifyAdapter(requestOk, doOk, statusOK)))
    /\ UNCHANGED <<adapterVars, callerVars>>

\* Configurations of the runs with the adapters in place; the durations of
\* the wake configuration are varied where Wake reads them.
Timeouts == {1, 2}

PollIntervals == {1, 2}

StabilizeWaits == {0, 1}

TimedWOLConfigs ==
    {NoWOL}
    \cup [present : {TRUE}, MACValid : {FALSE}, PollURL : {""},
          Timeout : {1}, PollInterval : {1}, StabilizeWait : {0}]
    \cup [present : {TRUE}, MACValid : {TRUE}, PollURL : {"", MalformedURL},
          Timeout : {1}, PollInterval : {1}, StabilizeWait : {0}]
    \cup [present : {TRUE}, MACValid : {TRUE}, PollURL : {""},
          Timeout : {1}, PollInterval : {1}, StabilizeWait : {1}]
    \cup [present : {TRUE}, MACValid : {TRUE},
          PollURL : {"http://target/health"}, Timeout : Timeouts,
          PollInterval : PollIntervals, StabilizeWait : StabilizeWaits]

\* Runs that poll the target or configure a stabilization period are taken
\* with the dump and the check switched off and the key, if any, held in
\* the configuration.
AdapterConfigs ==
    { c \in [WOL : TimedWOLConfigs, Postgres : BOOLEAN,
             SSHShutdown : SSHConfigs, Telegram : BOOLEAN,
             CheckEnabled : BOOLEAN] :
        (c.WOL.PollURL = "http://target/health" \/ c.WOL.StabilizeWait > 0) =>
            /\ ~c.Postgres
            /\ ~c.CheckEnabled
            /\ c.SSHShutdown.present => /\ c.SSHShutdown.PrivateKey = "key"
                                        /\ c.SSHShutdown.KeyPath = "" }

InitAdapters ==
    /\ cfg \in AdapterConfigs
    /\ keyReadable \in IF cfg.SSHShutdown.present /\ NeedsKeyLoad
                        THEN BOOLEAN ELSE {TRUE}
    /\ pc = "idle"
    /\ inflight = "none"
    /\ failedStep = ""
    /\ wolAttempted = FALSE
    /\ wolSucceeded = FALSE
    /\ backupStats = NoStats
    /\ forgetStats = NoStats
    /\ returnErr = Nil
    /\ pgDumpPath = ""
    /\ deferred = <<>>
    /\ dumpFile = FALSE
    /\ backupArgs = NoArgs
    /\ ret = [a \in Adapters |-> NoRet]
    /\ msg = NoMsg
    /\ trace = <<>>
    /\ returned = FALSE
    /\ cancelled = FALSE
    /\ now = 0
    /\ wpc = "idle"
    /\ wDeadline = 0
    /\ wTimer = 0
    /\ wPolls = 0
    /\ wLog = <<>>
    /\ wResult = NoResult
    /\ wOut = NoOut
    /\ wCancelAt = ""
    /\ wPollsAtCancel = 0
    /\ spc = "idle"
    /\ sDial = "none"
    /\ sClient = "none"
    /\ sOut = NoOut
    /\ sCancelAt = ""
    /\ sWaited = FALSE
    /\ sCtxAtDial = FALSE
    /\ repo \in {"absent", "initialized"}
    /\ initLog = <<>>
    /\ dumpCmd = "not run"
    /\ checkCmd = "not run"
    /\ cfg0 = cfg
    /\ sigPending = FALSE
    /\ runAtCancel = ""

NextAdapters ==
    \/ RunStart
    \/ WakeCall \/ WakeSendPacket \/ WakeLoopTop \/ WakePollReturn
    \/ WakeSelect \/ WakeAdapterReturn
    \/ Interrupt \/ Cancel \/ Tick
    \/ InitCall \/ InitAdapterReturn
    \/ DumpCall \/ DumpAdapterReturn
    \/ BackupCall \/ BackupAdapterReturn
    \/ ForgetCall \/ ForgetAdapterReturn
    \/ CheckCall \/ CheckAdapterReturn
    \/ DeferRemoveDump
    \/ DeferShutdown \/ ShutdownBuildConfig \/ ShutdownSelect \/ DialEnds
    \/ SessionEnds \/ CommandEnds \/ ShutdownAdapterReturn
    \/ DeferNotify \/ NotifyAdapterReturn
    \/ RunReturn

SpecAdapters == InitAdapters /\ [][NextAdapters]_vars

\* Init on its own: repeated calls on one repository.
SpecInit == InitAdapters /\ [][InitCalledAgain]_vars

\* The listener goroutine is blocked in a receive from sigChan; the Go
\* scheduler runs it once a signal is there.
SpecListener == SpecAdapters /\ WF_vars(Cancel)


----------------------------------------------------------------------------
(* Vocabulary of the properties: what happened in the run, read off the    *)
(* history and off what the adapters returned.                             *)

Count(ev) == Cardinality({i \in 1..Len(trace) : trace[i] = ev})

Called(a) == \E i \in 1..Len(trace) : trace[i] = CallEv(a)

Returned(a) == \E i \in 1..Len(trace) : trace[i] = RetEv(a)

WakeFailed ==
    \/ ret["Wake"].kind \in {"terr", "rerr"}
    \/ /\ ret["Wake"].kind = "ok"
       /\ ~ret["Wake"].TargetReady
       /\ cfg.WOL.PollURL # ""

WakePassed ==
    /\ ret["Wake"].kind = "ok"
    /\ ret["Wake"].TargetReady \/ cfg.WOL.PollURL = ""

StepFailed(a) ==
    CASE a = "Wake" -> WakeFailed
      [] a = "Init" -> ret["Init"].kind = "terr"
      [] a = "Check" -> \/ ret["Check"].kind \in {"terr", "rerr"}
                        \/ ret["Check"].kind = "ok" /\ ~ret["Check"].Passed
      [] a = "Shutdown" -> \/ ret["Shutdown"].kind = "terr"
                           \/ /\ ret["Shutdown"].kind = "rerr"
                              /\ ~ret["Shutdown"].CommandRun
      [] OTHER -> ret[a].kind \in {"terr", "rerr"}

ForwardAdapters == <<"Init", "Dump", "Backup", "Forget", "Check">>

AdapterOrder ==
    <<"Wake", "Init", "Dump", "Backup", "Forget", "Check", "Shutdown",
      "Notify">>

Rank(a) == CHOOSE i \in 1..Len(AdapterOrder) : AdapterOrder[i] = a

ClassOf(a) ==
    CASE a = "Wake" -> "wol"
      [] a = "Init" -> "init"
      [] a = "Dump" -> "postgres"
      [] a = "Backup" -> "backup"
      [] a = "Forget" -> "forget"
      [] a = "Check" -> "check"
      [] a = "Shutdown" -> "ssh_shutdown"

\* Classification of the forward step that failed in this run ("" if none).
FailedForward ==
    IF WakeFailed THEN "wol"
    ELSE IF \E i \in 1..Len(ForwardAdapters) : StepFailed(ForwardAdapters[i])
    THEN ClassOf(ForwardAdapters[CHOOSE i \in 1..Len(ForwardAdapters) :
            /\ StepFailed(ForwardAdapters[i])
            /\ \A k \in 1..(i - 1) : ~StepFailed(ForwardAdapters[k])])
    ELSE ""

\* The step whose execution produced error e.
ErrAdapter(e) ==
    IF e = <<"target did not become ready after WOL">> THEN "Wake"
    ELSE IF e = <<"repository check failed">> THEN "Check"
    ELSE IF e = KeyReadErr THEN "Shutdown"
    ELSE e[Len(e) - 1]

\* The key needed by the shutdown step cannot be obtained.
KeyUnavailable ==
    /\ cfg.SSHShutdown.PrivateKey = "nil"
    /\ cfg.SSHShutdown.KeyPath # ""
    /\ ~keyReadable

GateOpen == cfg.SSHShutdown.present /\ (~cfg.WOL.present \/ WakePassed)

\* The adapters that hand back a step result.
ResultAdapters == {"Wake", "Dump", "Backup", "Forget", "Check", "Shutdown"}

\* The run records the failure of the step of adapter a: the error of the
\* step is what Run returns, under the classification of the step; a
\* shutdown failure is recorded when no forward step failed.
RecordedFailure(a) ==
    IF a = "Shutdown"
    THEN FailedForward = "" =>
            /\ returnErr # Nil
            /\ failedStep = "ssh_shutdown"
            /\ ErrAdapter(returnErr) = "Shutdown"
    ELSE /\ returnErr # Nil
         /\ failedStep = ClassOf(a)
         /\ ErrAdapter(returnErr) = a

\* No optional sub-configuration and check disabled.
MinimalConfig ==
    /\ ~cfg.WOL.present
    /\ ~cfg.Postgres
    /\ ~cfg.SSHShutdown.present
    /\ ~cfg.Telegram
    /\ ~cfg.CheckEnabled

----------------------------------------------------------------------------
(* C1 as stated: Shutdown is invoked exactly once when the shutdown         *)
(* sub-config is present and Wake is absent or succeeded, and zero times    *)
(* otherwise.  Fails when the key file of the shutdown config is           *)
(* unreadable: the step ends before the adapter is reached.                *)
C1_ShutdownOnceIffGate ==
    returned => Count(CallEv("Shutdown")) = (IF GateOpen THEN 1 ELSE 0)

(* C1 (amended): when Run has returned, the Shutdown adapter has been      *)
(* invoked exactly once if the shutdown sub-config is present, Wake is     *)
(* absent or succeeded and the SSH key is available, whichever forward     *)
(* step failed; otherwise it has been invoked zero times.  It is never     *)
(* invoked more than once.                                                 *)
C1_WakeGate ==
    /\ Count(CallEv("Shutdown")) <= 1
    /\ Called("Shutdown") => GateOpen /\ ~KeyUnavailable
    /\ returned =>
         Count(CallEv("Shutdown")) =
            (IF GateOpen /\ ~KeyUnavailable THEN 1 ELSE 0)

C1_Witness ==
    /\ returned
    /\ cfg.WOL.present /\ WakePassed
    /\ StepFailed("Backup")
    /\ Count(CallEv("Shutdown")) = 1

(* C2: if Wake is configured and fails (transport error, result error, or  *)
(* target not ready), none of Init, Dump, Backup, Forget, Check, Shutdown  *)
(* is invoked, Run returns a non-nil error and the classification is wol.  *)
C2_WakeFailureAborts ==
    WakeFailed =>
        /\ \A a \in Adapters \ {"Wake", "Notify"} : ~Called(a)
        /\ failedStep = "wol"
        /\ returnErr # Nil
        /\ msg.sent => msg.FailedStep = "wol"

C2_Witness ==
    /\ returned
    /\ ret["Wake"].kind = "ok" /\ ~ret["Wake"].TargetReady
    /\ WakeFailed
    /\ cfg.SSHShutdown.present
    /\ msg.sent

(* C3: the error Run returns is that of the first forward step that        *)
(* failed; a Shutdown failure is returned, with classification             *)
(* ssh_shutdown, only when every forward step succeeded.                   *)
C3_TerminalErrorPrecedence ==
    returned =>
        /\ FailedForward # "" =>
             /\ returnErr # Nil
             /\ ClassOf(ErrAdapter(returnErr)) = FailedForward
             /\ failedStep = FailedForward
        /\ (returnErr # Nil /\ ErrAdapter(returnErr) = "Shutdown") =>
             /\ FailedForward = ""
             /\ failedStep = "ssh_shutdown"
        /\ (FailedForward = "" /\ StepFailed("Shutdown")) =>
             /\ returnErr # Nil
             /\ ErrAdapter(returnErr) = "Shutdown"

C3_Witness ==
    /\ returned
    /\ StepFailed("Forget")
    /\ StepFailed("Shutdown")
    /\ failedStep = "forget"

(* C4: with the notification sub-config present, Notify is invoked exactly *)
(* once per run, after every other adapter call has returned (Shutdown in  *)
(* particular); without it Notify is never invoked.                        *)
C4_NotifyLastOnce ==
    /\ ~cfg.Telegram => ~Called("Notify")
    /\ Count(CallEv("Notify")) <= 1
    /\ (returned /\ cfg.Telegram) => Count(CallEv("Notify")) = 1
    /\ \A i \in 1..Len(trace) :
         trace[i] = CallEv("Notify") =>
            /\ \A j \in (i + 1)..Len(trace) : trace[j] = RetEv("Notify")
            /\ \A k \in 1..(i - 1) :
                 trace[k][2] = "call" => trace[k + 1] = RetEv(trace[k][1])

C4_Witness ==
    /\ returned
    /\ StepFailed("Init")
    /\ StepFailed("Shutdown")
    /\ Returned("Notify")

(* C5: backupStats (forgetStats) is populated iff Backup (Forget) returned *)
(* with neither a transport error nor a result error; the notification     *)
(* carries the values of the Backup result iff Backup succeeded and zero   *)
(* values otherwise, likewise for Forget, whatever failed later.           *)
C5_StatsCapture ==
    /\ backupStats.present <=> ret["Backup"].kind = "ok"
    /\ forgetStats.present <=> ret["Forget"].kind = "ok"
    /\ msg.sent =>
         /\ [SnapshotID |-> msg.SnapshotID, FilesNew |-> msg.FilesNew,
             FilesChanged |-> msg.FilesChanged,
             FilesUnmodified |-> msg.FilesUnmodified,
             DataAdded |-> msg.DataAdded,
             TotalFilesProcessed |-> msg.TotalFiles,
             TotalBytesProcessed |-> msg.TotalBytes]
            = (IF ret["Backup"].kind = "ok" THEN ret["Backup"].data
               ELSE ZeroBackupData)
         /\ [SnapshotsKept |-> msg.SnapshotsKept,
             SnapshotsRemoved |-> msg.SnapshotsRemoved]
            = (IF ret["Forget"].kind = "ok" THEN ret["Forget"].data
               ELSE ZeroForgetData)

C5_Witness ==
    /\ msg.sent
    /\ msg.SnapshotID = "abc123"
    /\ msg.SnapshotsKept = 5
    /\ StepFailed("Check")
    /\ StepFailed("Shutdown")

(* C6: when Run returns an error, the failed-step value given to the       *)
(* notification is the classification of the step that produced that       *)
(* error; when Run returns nil it is empty.                                *)
C6_FailureClassification ==
    returned =>
        IF returnErr # Nil
        THEN /\ failedStep = ClassOf(ErrAdapter(returnErr))
             /\ msg.sent => msg.FailedStep = ClassOf(ErrAdapter(returnErr))
        ELSE /\ failedStep = ""
             /\ msg.sent => msg.FailedStep = ""

C6_Witness ==
    /\ returned
    /\ ret["Backup"].kind = "ok" /\ ret["Forget"].kind = "ok"
    /\ StepFailed("Check")
    /\ msg.sent /\ msg.FailedStep = "check"

(* C7: the Success flag of the notification is true iff Run returns nil,   *)
(* and the error text of the notification is the text of the error Run     *)
(* returns.                                                                *)
C7_NotificationAgreesWithResult ==
    (returned /\ msg.sent) =>
        /\ msg.Success <=> (returnErr = Nil)
        /\ returnErr # Nil => msg.ErrorMessage = returnErr

C7_Witness ==
    /\ returned /\ msg.sent
    /\ FailedForward = ""
    /\ StepFailed("Shutdown")
    /\ ~msg.Success

(* C8: once a forward step has failed no later forward step is invoked;    *)
(* Shutdown (gate permitting) and Notification are still attempted.        *)
C8_AbortOnFailure ==
    /\ \A i \in 1..Len(ForwardAdapters) :
         StepFailed(ForwardAdapters[i]) =>
            \A j \in (i + 1)..Len(ForwardAdapters) :
                ~Called(ForwardAdapters[j])
    /\ (returned /\ FailedForward \notin {"", "wol"}) =>
         /\ cfg.Telegram => Called("Notify")
         /\ cfg.SSHShutdown.present =>
              (Called("Shutdown") \/ KeyUnavailable)

C8_Witness ==
    /\ returned
    /\ StepFailed("Dump")
    /\ Called("Shutdown")
    /\ Called("Notify")

(* C9: the adapter invocations of a run appear in the order Wake, Init,    *)
(* Dump, Backup, Forget, Check, Shutdown, Notify, and an invocation starts *)
(* only after the previous one has returned.                               *)
C9_Ordering ==
    /\ \A i, j \in 1..Len(trace) :
         (i < j /\ trace[i][2] = "call" /\ trace[j][2] = "call") =>
            Rank(trace[i][1]) < Rank(trace[j][1])
    /\ \A i \in 1..Len(trace) :
         trace[i][2] = "call" =>
            IF i = Len(trace) THEN inflight = trace[i][1]
            ELSE trace[i + 1] = RetEv(trace[i][1])
    /\ inflight # "none" => trace[Len(trace)] = CallEv(inflight)

C9_Witness ==
    /\ returned
    /\ \A a \in Adapters : Returned(a)

(* C10: after a successful Dump the dump file is not deleted before Backup *)
(* has returned, and it is deleted when Run returns, whatever failed.      *)
C10_DumpCleanup ==
    /\ (ret["Dump"].kind = "ok" /\ ~dumpFile) => Returned("Backup")
    /\ \A i \in 1..Len(trace) :
         trace[i] = RemoveEv =>
            \E k \in 1..(i - 1) : trace[k] = RetEv("Backup")
    /\ (returned /\ ret["Dump"].kind = "ok") => ~dumpFile

C10_Witness ==
    /\ returned
    /\ ret["Dump"].kind = "ok"
    /\ StepFailed("Backup")
    /\ StepFailed("Shutdown")
    /\ Returned("Notify")
    /\ ~dumpFile

(* C11: when the dump sub-config is present and Dump succeeded, Backup is  *)
(* invoked with the configured paths followed by exactly one more entry,   *)
(* the dump file path; without the dump sub-config it is invoked with      *)
(* exactly the configured paths; tags and host are the configured ones.    *)
C11_BackupInput ==
    backupArgs.called =>
        /\ cfg.Postgres /\ ret["Dump"].kind = "ok" =>
               /\ backupArgs.Paths = Append(ConfiguredPaths, DumpOutputPath)
               /\ Len(backupArgs.Paths) = Len(ConfiguredPaths) + 1
        /\ ~cfg.Postgres => backupArgs.Paths = ConfiguredPaths
        /\ backupArgs.Tags = ConfiguredTags
        /\ backupArgs.Host = ConfiguredHost

C11_Witness ==
    /\ backupArgs.called
    /\ cfg.Postgres
    /\ ret["Dump"].kind = "ok"
    /\ Returned("Backup")

(* C12 as stated: each of a transport error, a result error and a          *)
(* passed=false result of Check makes Run return an error classified       *)
(* check; with check disabled Check is never invoked and a run whose       *)
(* earlier steps succeeded returns nil.  Fails when the shutdown step      *)
(* fails after the forward steps succeeded.                                *)
C12_CheckDisabledSuccess ==
    /\ StepFailed("Check") => returnErr # Nil /\ failedStep = "check"
    /\ ~cfg.CheckEnabled => ~Called("Check")
    /\ returned /\ ~cfg.CheckEnabled /\ FailedForward = "" => returnErr = Nil

(* C12 (amended): with check enabled, each of a transport error, a result  *)
(* error and a passed=false result of Check makes Run return an error with *)
(* classification check; with check disabled Check is never invoked and a  *)
(* run whose earlier steps succeeded returns nil unless the shutdown step  *)
(* fails, in which case the classification is ssh_shutdown.                *)
C12_CheckFailure ==
    /\ StepFailed("Check") =>
           /\ returnErr # Nil
           /\ failedStep = "check"
           /\ ErrAdapter(returnErr) = "Check"
    /\ ~cfg.CheckEnabled => ~Called("Check")
    /\ returned /\ ~cfg.CheckEnabled /\ FailedForward = "" =>
           \/ returnErr = Nil
           \/ /\ failedStep = "ssh_shutdown"
              /\ StepFailed("Shutdown") \/ KeyUnavailable

C12_Witness ==
    /\ returned
    /\ ret["Check"].kind = "ok"
    /\ ~ret["Check"].Passed
    /\ failedStep = "check"

(* C13: Unlock is invoked exactly once in every run, after Init has        *)
(* succeeded and before Dump and Backup; Run has no such step, so the      *)
(* first Dump or Backup invocation happens without any Unlock before it.   *)
C13_UnlockBeforeBackup ==
    \A i \in 1..Len(trace) :
        trace[i] \in {CallEv("Dump"), CallEv("Backup")} =>
            /\ Count(CallEv("Unlock")) = 1
            /\ \E j \in 1..(i - 1) : trace[j] = RetEv("Unlock")

(* C14 as stated: for each of Wake, Dump, Backup, Forget, Check, Shutdown  *)
(* a transport error and a result whose Error is set both make the step    *)
(* fail.  Fails for a Shutdown result with an error and CommandRun set.    *)
C14_BothShapesFail ==
    \A a \in ResultAdapters :
        ret[a].kind \in {"terr", "rerr"} => RecordedFailure(a)

(* C14 (amended): a transport error and a result whose Error is set both   *)
(* make the step fail, for Wake, Dump, Backup, Forget and Check, and for   *)
(* Shutdown when the command was not run; a Shutdown result with an error  *)
(* and CommandRun set does not fail the run.                               *)
C14_ErrorShapes ==
    /\ \A a \in ResultAdapters :
           /\ ret[a].kind \in {"terr", "rerr"}
           /\ ~(a = "Shutdown" /\ ret[a].kind = "rerr" /\ ret[a].CommandRun)
           => RecordedFailure(a)
    /\ /\ ret["Shutdown"].kind = "rerr"
       /\ ret["Shutdown"].CommandRun
       /\ FailedForward = ""
       => returnErr = Nil

C14_Witness ==
    /\ returned
    /\ ret["Forget"].kind = "rerr"
    /\ ret["Shutdown"].kind = "terr"

(* C16: within one run each adapter operation is invoked at most once,     *)
(* whatever the adapters return.                                           *)
C16_NoRetries == \A a \in Adapters : Count(CallEv(a)) <= 1

C16_Witness ==
    /\ returned
    /\ ret["Backup"].kind = "rerr"
    /\ Count(CallEv("Backup")) = 1

(* C17: with no wake, dump, shutdown and notification sub-config and check *)
(* disabled, none of Wake, Dump, Check, Shutdown, Notify is invoked, and a *)
(* run in which Init, Backup and Forget succeed returns nil.               *)
C17_MinimalConfig ==
    MinimalConfig =>
        /\ \A a \in {"Wake", "Dump", "Check", "Shutdown", "Notify"} :
               ~Called(a)
        /\ /\ returned
           /\ \A a \in {"Init", "Backup", "Forget"} : ret[a].kind = "ok"
           => returnErr = Nil /\ failedStep = ""

C17_Witness ==
    /\ MinimalConfig
    /\ returned
    /\ \A a \in {"Init", "Backup", "Forget"} : ret[a].kind = "ok"

\* The error text holds the fragment w.
Contains(e, w) == \E i \in 1..Len(e) : e[i] = w

\* Wake is about to hand its pair back.
WakeReturning == wpc = "return"

\* Wake has sent the packet and polled (or is polling) the target.
Polled ==
    /\ wResult.PacketSent
    /\ cfg.WOL.PollURL \notin {"", MalformedURL}

\* A poll of this call received a success response.
SawSuccess == \E i \in 1..Len(wLog) : wLog[i] = "200"

\* The result of a Wake that was cancelled.
CancelledResult ==
    [PacketSent |-> TRUE, TargetReady |-> FALSE, Error |-> CtxCanceled]

\* The result of a Wake that timed out.
TimedOutResult ==
    [PacketSent |-> TRUE, TargetReady |-> FALSE,
     Error |-> TimeoutErr(cfg.WOL.PollURL)]

(* C15: Wake, Dump, Backup, Forget, Check, Shutdown and SendNotification   *)
(* return on every path a non-nil result with a nil error; a failure is    *)
(* carried in the Error field of the result.                               *)
C15_ResultNeverNil ==
    /\ wOut.returned => wOut.result # NilResult /\ wOut.err = Nil
    /\ \A a \in ResultAdapters \cup {"Notify"} :
           ret[a].kind \in {"none", "rerr", "ok"}
    /\ ret["Wake"].kind = "ok" => ret["Wake"].TargetReady
    /\ ret["Check"].kind = "ok" => ret["Check"].Passed
    /\ ret["Shutdown"].kind = "ok" => ret["Shutdown"].CommandRun
    /\ ret["Notify"].kind = "ok" => ret["Notify"].MessageSent

C15_Witness ==
    /\ returned
    /\ cancelled
    /\ ret["Wake"].kind = "ok"
    /\ ret["Backup"].kind = "rerr"
    /\ ret["Shutdown"].kind = "rerr"
    /\ ret["Notify"].kind = "rerr"

(* C18: with a poll URL configured, if no poll succeeds before the timeout *)
(* elapses, Wake returns PacketSent=true, TargetReady=false and an error   *)
(* containing "timeout"; Run then returns an error containing "timeout"    *)
(* and Shutdown is never invoked.  Stated for runs that are not cancelled. *)
C18_WakeTimeout ==
    /\ WakeReturning /\ Polled /\ ~cancelled /\ ~SawSuccess =>
           /\ wOut.result = TimedOutResult
           /\ Contains(wOut.result.Error, "timeout")
    /\ ret["Wake"].kind = "rerr" /\ Contains(ret["Wake"].Error, "timeout") =>
           /\ pc \in {"exit", "done"}
           /\ Contains(returnErr, "timeout")
           /\ ~Called("Shutdown")

(* C19: a poll answered with a non-success status does not make the target *)
(* ready: TargetReady is set only after a success response, and a target   *)
(* that always answers 503 ends in TargetReady=false with a timeout error. *)
C19_ReadinessNeedsSuccess ==
    /\ WakeReturning /\ Polled /\ wOut.result.TargetReady => SawSuccess
    /\ /\ WakeReturning /\ Polled /\ ~cancelled
       /\ wLog # <<>>
       /\ \A i \in 1..Len(wLog) : wLog[i] = "503"
       => wOut.result = TimedOutResult

(* C20 as stated: if the context is cancelled while Wake waits between     *)
(* polls, has a poll in flight or is in the stabilization wait, Wake       *)
(* returns without a further poll, with PacketSent=true, TargetReady=false *)
(* and Error = ctx.Err().  Fails when the poll in flight still gets a      *)
(* response.                                                               *)
C20_CancelObserved ==
    WakeReturning /\ wCancelAt \in {"pollwait", "poll", "stabilize"} =>
        /\ wPolls = wPollsAtCancel
        /\ wOut.result = CancelledResult

(* C20 (amended): if the context is cancelled while Wake is blocked in the *)
(* wait between polls or in the stabilization wait, or while a poll is in  *)
(* flight that then fails, Wake returns without a further poll, with       *)
(* PacketSent=true, TargetReady=false and Error = ctx.Err().               *)
C20_CancelWhileBlocked ==
    /\ WakeReturning
    /\ \/ wCancelAt \in {"pollwait", "stabilize"}
       \/ wCancelAt = "poll" /\ wLog[Len(wLog)] = "err"
    => /\ wPolls = wPollsAtCancel
       /\ wOut.result = CancelledResult

C20_Witness ==
    /\ WakeReturning
    /\ wCancelAt = "stabilize"
    /\ wLog = <<"err", "200">>
    /\ wOut.result = CancelledResult

----------------------------------------------------------------------------
(* C29: a Shutdown result that carries an error fails the shutdown step    *)
(* only when the command was not run.  With CommandRun set the error is a  *)
(* warning: it is never the error Run returns and never yields the         *)
(* classification ssh_shutdown.  With CommandRun unset the error is the    *)
(* error Run returns, under ssh_shutdown, unless a forward step failed.    *)
C29_ShutdownWarning ==
    (Returned("Shutdown") /\ ret["Shutdown"].kind = "rerr") =>
        IF ret["Shutdown"].CommandRun
        THEN /\ failedStep # "ssh_shutdown"
             /\ returnErr # Nil => ErrAdapter(returnErr) # "Shutdown"
        ELSE FailedForward = "" =>
                /\ failedStep = "ssh_shutdown"
                /\ returnErr = Wrap("SSH shutdown failed",
                                    ResultErr("Shutdown"))

C29_Witness ==
    /\ returned
    /\ ret["Shutdown"].kind = "rerr"
    /\ ret["Shutdown"].CommandRun
    /\ returnErr = Nil
    /\ failedStep = ""

(* C30: once Wake has returned, wolSucceeded holds iff Wake gave neither a *)
(* transport error nor a result error and, when a poll URL is configured,  *)
(* reported TargetReady.  A wake that succeeded lets the run go on to Init *)
(* and lets the shutdown step run; one that failed ends the forward steps  *)
(* under the classification wol and closes the shutdown step.              *)
C30_WakeSuccessRule ==
    Returned("Wake") =>
        /\ wolSucceeded <=>
              /\ ret["Wake"].kind = "ok"
              /\ cfg.WOL.PollURL # "" => ret["Wake"].TargetReady
        /\ ~wolSucceeded =>
              /\ returnErr # Nil
              /\ failedStep = "wol"
              /\ ~Called("Init")
              /\ ~Called("Shutdown")
        /\ (wolSucceeded /\ returned) =>
              /\ Called("Init")
              /\ failedStep # "wol"
              /\ (cfg.SSHShutdown.present /\ ~KeyUnavailable) =>
                    Called("Shutdown")

C30_Witness ==
    /\ returned
    /\ ret["Wake"].kind = "ok"
    /\ ~ret["Wake"].TargetReady
    /\ cfg.WOL.PollURL = ""
    /\ wolSucceeded
    /\ Called("Init")
    /\ Called("Shutdown")

(* C27: the exit actions run last registered first: the dump file, when    *)
(* one was created, is deleted before Shutdown is invoked, Shutdown has    *)
(* returned before Notify is invoked, and no dump file exists while        *)
(* Shutdown or Notify is in progress.  No forward step runs after an exit  *)
(* action.                                                                 *)
C27_ExitOrder ==
    /\ \A i, j \in 1..Len(trace) :
         /\ (/\ trace[i] = RemoveEv
             /\ trace[j] \in {CallEv("Shutdown"), CallEv("Notify")}) => i < j
         /\ (/\ trace[i] = RetEv("Shutdown")
             /\ trace[j] = CallEv("Notify")) => i < j
         /\ (/\ trace[i] \in {RemoveEv, CallEv("Shutdown"), CallEv("Notify")}
             /\ \E k \in 1..Len(ForwardAdapters) :
                   trace[j] = RetEv(ForwardAdapters[k])) => j < i
    /\ (ret["Dump"].kind = "ok" /\ (Called("Shutdown") \/ Called("Notify")))
          => Count(RemoveEv) = 1
    /\ inflight \in {"Shutdown", "Notify"} => ~dumpFile

C27_Witness ==
    /\ returned
    /\ returnErr = Nil
    /\ ret["Dump"].kind = "ok"
    /\ Count(RemoveEv) = 1
    /\ Returned("Shutdown")
    /\ Returned("Notify")

(* C25: Run leaves the configuration of its caller as it found it: when    *)
(* Run has returned, every field of the BackupConfig, the private key of   *)
(* the shutdown sub-configuration included, has the value it had when Run  *)
(* was called.                                                             *)
C25_ConfigUnchanged == returned => cfg = cfg0

(* C22: a Run that is handed a context already cancelled returns a non-nil *)
(* error: it fails at the wake step or at Init, and no later forward step  *)
(* is invoked.                                                             *)
C22_CancelledBeforeStart ==
    (returned /\ runAtCancel = "not started") =>
        /\ returnErr # Nil
        /\ failedStep \in {"wol", "init"}
        /\ \A a \in {"Dump", "Backup", "Forget", "Check"} : ~Called(a)

C22_Witness ==
    /\ returned
    /\ runAtCancel = "not started"
    /\ cfg.WOL.present
    /\ wolSucceeded
    /\ StepFailed("Init")
    /\ returnErr # Nil

\* The context was cancelled while a forward step was in progress, and that
\* step failed.
CancelledStepFailed ==
    /\ runAtCancel \in {"Wake", "Init", "Dump", "Backup", "Forget", "Check"}
    /\ StepFailed(runAtCancel)

(* C28 as stated: when the context is cancelled during a forward step and  *)
(* the step fails, Run has invoked Shutdown exactly once if the wake-gate   *)
(* allows it, and Notify exactly once if it is configured, when it         *)
(* returns.  Fails when the key file of the shutdown config is unreadable. *)
C28_ExitActionsOnCancel ==
    (returned /\ CancelledStepFailed) =>
        /\ GateOpen => Count(CallEv("Shutdown")) = 1
        /\ cfg.Telegram => Count(CallEv("Notify")) = 1

(* C28 (amended): when the context is cancelled during a forward step and  *)
(* the step fails, Run has, when it returns, invoked Shutdown exactly once *)
(* if the wake-gate allows it and the SSH key is available, and Notify     *)
(* exactly once if it is configured; both calls are made with the context  *)
(* already cancelled, after the failed step has returned.                  *)
C28_ExitActionsStillRun ==
    /\ (returned /\ CancelledStepFailed) =>
          /\ (GateOpen /\ ~KeyUnavailable) => Count(CallEv("Shutdown")) = 1
          /\ cfg.Telegram => Count(CallEv("Notify")) = 1
    /\ (CancelledStepFailed /\ inflight \in {"Shutdown", "Notify"}) =>
          /\ cancelled
          /\ Returned(runAtCancel)

C28_Witness ==
    /\ returned
    /\ runAtCancel = "Backup"
    /\ StepFailed("Backup")
    /\ cancelled
    /\ Count(CallEv("Shutdown")) = 1
    /\ Count(CallEv("Notify")) = 1

(* C23: a signal delivered while Run executes leads to the cancellation of *)
(* the context Run was given, and the step that delivers the signal and    *)
(* the step of the listener that cancels leave every field of the outcome  *)
(* of the run as it was: terminal error, failure classification, wake      *)
(* flags, statistics.                                                      *)
C23_ListenerOnlyCancels ==
    /\ sigPending ~> cancelled
    /\ [][(sigPending' # sigPending \/ cancelled' # cancelled) =>
             UNCHANGED <<returnErr, failedStep, wolAttempted, wolSucceeded,
                         backupStats, forgetStats>>]_vars

C23_Witness ==
    /\ cancelled
    /\ ~sigPending
    /\ runAtCancel = "Forget"
    /\ returned
    /\ failedStep = "forget"

\* The text SendNotification has delivered in this run (no line if none).
DeliveredText ==
    IF /\ Returned("Notify")
       /\ ret["Notify"].kind = "ok"
       /\ ret["Notify"].MessageSent
    THEN FormatMessage(msg)
    ELSE <<>>

HasLine(text, line) == \E i \in 1..Len(text) : text[i] = line

(* C26: when Backup and Forget succeeded and a later step failed, the text *)
(* of a delivered notification holds the snapshot identifier of the Backup *)
(* result and the kept and removed counts of the Forget result (stated for *)
(* a result with an identifier and a positive kept count).                 *)
C26_FailureTextHasStats ==
    (/\ DeliveredText # <<>>
     /\ ret["Backup"].kind = "ok"
     /\ ret["Forget"].kind = "ok"
     /\ ret["Backup"].data.SnapshotID # ""
     /\ ret["Forget"].data.SnapshotsKept > 0
     /\ StepFailed("Check")) =>
        /\ HasLine(DeliveredText, <<"Snapshot", ret["Backup"].data.SnapshotID>>)
        /\ HasLine(DeliveredText,
                   <<"Snapshots kept", ret["Forget"].data.SnapshotsKept>>)
        /\ HasLine(DeliveredText,
                   <<"Snapshots removed", ret["Forget"].data.SnapshotsRemoved>>)

(* C21: a Shutdown that is connecting, creating a session or executing the *)
(* remote command when the context is cancelled returns with the           *)
(* cancellation error of the context, and does so without going on upon a  *)
(* later answer of the remote side.                                        *)
C21_ShutdownObservesCancel ==
    (/\ spc \in {"return", "returned"}
     /\ sCancelAt \in {"connecting", "session", "command"}) =>
        /\ sOut.result.Error = CtxCanceled
        /\ ~sWaited

\* A command of this call of Init failed although the state of the
\* repository allowed it to succeed (unreachable repository, wrong
\* password, context done).
CommandFailed(c) ==
    \/ c.before = "initialized" /\ ~c.snapshotsOk
    \/ c.before = "absent" /\ ~c.initOk

----------------------------------------------------------------------------
(* C31: the outcome of SendNotification never changes the outcome of the   *)
(* run: the step in which SendNotification returns leaves the error Run    *)
(* returns and the failure classification as they were, whatever it        *)
(* returned, no error Run returns stems from Notify, and a run in which    *)
(* only the notification failed returns nil with an empty classification.  *)
C31_NotifyFailureIgnored ==
    /\ [][(inflight = "Notify" /\ inflight' # "Notify") =>
             UNCHANGED <<returnErr, failedStep, wolAttempted, wolSucceeded,
                         backupStats, forgetStats>>]_vars
    /\ [](returnErr # Nil => ErrAdapter(returnErr) # "Notify")
    /\ []((/\ returned
           /\ StepFailed("Notify")
           /\ FailedForward = ""
           /\ ~StepFailed("Shutdown")
           /\ ~(GateOpen /\ KeyUnavailable)) =>
              (returnErr = Nil /\ failedStep = ""))

C31_Witness ==
    /\ returned
    /\ ret["Notify"].kind = "rerr"
    /\ Returned("Check")
    /\ Returned("Shutdown")
    /\ returnErr = Nil
    /\ failedStep = ""

(* C32: every result Wake returns is consistent: TargetReady implies       *)
(* PacketSent and a nil Error; a non-nil Error implies TargetReady unset;  *)
(* PacketSent unset (invalid MAC address, send failure) implies a non-nil  *)
(* Error and that no poll request was issued.                              *)
C32_WakeResultConsistent ==
    WakeReturning =>
        /\ wOut.result # NilResult
        /\ wOut.result.TargetReady =>
              (wOut.result.PacketSent /\ wOut.result.Error = Nil)
        /\ wOut.result.Error # Nil => ~wOut.result.TargetReady
        /\ ~wOut.result.PacketSent =>
              (wOut.result.Error # Nil /\ wPolls = 0 /\ wLog = <<>>)

C32_Witness ==
    /\ WakeReturning
    /\ wOut.result = [PacketSent |-> FALSE, TargetReady |-> FALSE,
                      Error |-> SendPacketErr]
    /\ cfg.WOL.PollURL # ""
    /\ wPolls = 0

(* C33: without a poll URL, a Wake that has sent the packet returns at     *)
(* once with PacketSent and TargetReady set and no error: it issues no     *)
(* poll and enters no wait, whatever stabilization period is configured    *)
(* and whatever the state of the context.                                  *)
C33_NoPollURL ==
    (cfg.WOL.present /\ cfg.WOL.PollURL = "") =>
        /\ wpc \in {"idle", "return", "returned"}
        /\ wPolls = 0 /\ wLog = <<>>
        /\ wTimer = 0 /\ now = 0
        /\ (WakeReturning /\ wOut.result.PacketSent) =>
              wOut.result = [PacketSent |-> TRUE, TargetReady |-> TRUE,
                             Error |-> Nil]

C33_Witness ==
    /\ WakeReturning
    /\ cfg.WOL.PollURL = ""
    /\ cfg.WOL.StabilizeWait > 0
    /\ wOut.result.PacketSent
    /\ wOut.result.TargetReady
    /\ cancelled

(* C34: with a poll URL, Wake reports TargetReady only after a poll has    *)
(* received a success response and, when the stabilization period is       *)
(* positive, only once the whole period started at that response has       *)
(* elapsed; it is in the stabilization wait only after a poll has          *)
(* succeeded.                                                              *)
C34_ReadyAfterStabilization ==
    /\ (WakeReturning /\ Polled /\ wOut.result.TargetReady) =>
          /\ SawSuccess
          /\ cfg.WOL.StabilizeWait > 0 =>
                (wTimer > 0 /\ now >= wTimer)
    /\ wpc \in {"stabilize_enter", "stabilize"} =>
          (Polled /\ SawSuccess)

\* How waitForTarget has ended in a Wake that is returning: with nil after
\* a poll was answered, or with the error Wake hands on.
WaitOutcome ==
    IF wLog # <<>> /\ wLog[Len(wLog)] # "err" THEN "nil"
    ELSE IF wOut.result.Error = TimeoutErr(cfg.WOL.PollURL) THEN "timeout"
    ELSE IF wOut.result.Error = CtxCanceled THEN "cancelled"
    ELSE "other"

(* C35: the readiness poller ends in one of three ways: ready, after a     *)
(* poll that succeeded; timeout, with the deadline passed; cancelled, with *)
(* the context done.  No poll is outstanding or was issued beyond those    *)
(* counted when the context was seen cancelled.                            *)
C35_PollerOutcomes ==
    (WakeReturning /\ Polled) =>
        /\ WaitOutcome \in {"nil", "timeout", "cancelled"}
        /\ WaitOutcome = "nil" => wLog[Len(wLog)] = "200"
        /\ WaitOutcome = "timeout" => now > wDeadline
        /\ WaitOutcome = "cancelled" =>
              (cancelled /\ wPolls = Len(wLog))

\* The context was done before the connection attempt of this Shutdown had
\* completed: the attempt is still running, or it ended under a context
\* that was done.
CancelledBeforeConnected ==
    /\ cancelled
    /\ sDial = "running" \/ (sDial \in {"ok", "err"} /\ sCtxAtDial)

(* C36: when the context is done before the connection attempt completes, *)
(* Shutdown returns a result with CommandRun unset and Error = ctx.Err(),  *)
(* with a nil error beside it, and the shutdown command is never run.      *)
C36_CancelledBeforeConnect ==
    CancelledBeforeConnected =>
        /\ spc # "command"
        /\ spc \in {"return", "returned"} =>
              /\ sOut.err = Nil
              /\ sOut.result = ShutdownFails(CtxCanceled)

(* C37: no SSH connection is leaked: once Shutdown has returned, a client  *)
(* that its connection attempt created has been closed, whatever the order *)
(* of the connecting goroutine and the cancellation; a connection attempt  *)
(* that is still running when Shutdown returns hands its client to nobody, *)
(* so the client it creates later has to be closed as well.                *)
C37_NoClientLeaked ==
    (spc \in {"return", "returned"} /\ sDial = "ok") => sClient = "closed"

(* C38: when the command of Check exits with an error, a kill through the  *)
(* cancelled context included, Check returns Passed=false and a non-nil    *)
(* Error; it returns Passed=true only when the check is disabled or the    *)
(* command succeeded.                                                      *)
C38_CheckFailureReported ==
    Returned("Check") =>
        /\ checkCmd = "failed" =>
              /\ ret["Check"].kind = "rerr"
              /\ ~ret["Check"].Passed
        /\ (ret["Check"].kind = "ok" /\ ret["Check"].Passed) =>
              (~cfg.CheckEnabled \/ checkCmd = "ok")

(* C39: when the command of Dump fails, by cancellation included, no       *)
(* output file is left when Dump returns, the failure is in the error      *)
(* field of the result, and Run registers no removal, keeps no dump path   *)
(* and invokes no later forward step.                                      *)
C39_FailedDumpLeavesNothing ==
    dumpCmd = "failed" =>
        /\ ~dumpFile
        /\ ret["Dump"].kind = "rerr"
        /\ ret["Dump"].Error # Nil
        /\ pgDumpPath = ""
        /\ \A i \in 1..Len(deferred) : deferred[i] # "remove"
        /\ \A i \in 1..Len(trace) : trace[i] # RemoveEv
        /\ ~backupArgs.called
        /\ \A a \in {"Backup", "Forget", "Check"} : ~Called(a)

C39_Witness ==
    /\ returned
    /\ dumpCmd = "failed"
    /\ runAtCancel = "Dump"
    /\ Returned("Shutdown")
    /\ ~dumpFile

====
